---- MODULE Spec2Model ----
(***************************************************************************)
(* A model of the crab-rt path tracer: the intersection protocol           *)
(* (Sphere, axis-aligned rectangles, AaBox, Aabb, BvhNode, Vec<H>), the    *)
(* recursive integrator RayTracer::cast and the parallel driver            *)
(* RayTracer::raytrace.                                                    *)
(*                                                                         *)
(* Numbers.  f32 values are modelled exactly on a grid: world coordinates  *)
(* are integers, ray directions have components in -1..1, and every ray    *)
(* parameter t is held as TScale * t, so that the roots of the sphere      *)
(* quadratic (a = |d|^2 is 1, 2 or 3) and the slab distances are integers, *)
(* and so that cast's lower bound 0.001 lies between two grid values.      *)
(* Points computed from a t (hit points) are held as TScale * p.  The      *)
(* three IEEE values the code can produce by dividing by a zero direction  *)
(* component are kept as the sentinels Inf, -Inf and NaN, with the IEEE    *)
(* rules for comparison (false on NaN) and for f32::max / f32::min (the    *)
(* non-NaN argument).                                                      *)
(***************************************************************************)
EXTENDS Integers, Sequences, FiniteSets, TLC

VARIABLES
    (* intersection queries (pure functions applied to drawn inputs) *)
    gpc,        \* which query has been applied: "input", or the query's name
    shape,      \* the object queried (a sphere, a box, or a fresh HitRecord)
    ray,        \* the ray of the query
    t_min,      \* lower end of the accepted range, times TScale
    t_max,      \* upper end of the accepted range, times TScale (or Inf)
    rec,        \* the query's result: a HitRecord, or None
    (* a scene and its BVH *)
    objects,    \* the Vec<Object> the scene is built from
    bvh,        \* the BvhNode built by Scene::new (None before it is built)
    scan,       \* the result of the linear scan Vec<Object>::hit
    calls,      \* the stack of the calls of BvhNode::new that have not returned
    (* RayTracer::cast *)
    background,       \* the scene's Background
    max_reflections,  \* RayTracer::max_reflections
    frames,           \* the calls of cast made so far, outermost first
    sp,               \* the index in frames of the call being evaluated
    cpc,              \* "idle", "call" (entering cast), "return", "done"
    (* RayTracer::raytrace *)
    width, height, samples, camera,  \* the fields of the RayTracer
    main,        \* the calling thread: [pc, i], pc "spawn", "join", "returned"
    workers,     \* workers[i]: [pc, y, x, rng, line_pixels] of worker thread i
    mutex,       \* the Mutex around the image: Unlocked or the holder's index
    image,       \* the RgbImage inside the mutex: a pixel for each <<x, y>>
    writers,     \* history: for each <<x, y>>, the workers that put it, in order
    acquired,    \* history: for each worker, the rows it took the mutex for, in order
    computed     \* history: for each <<x, y>>, the colours sampled for it, in order

gvars == <<gpc, shape, ray, t_min, t_max, rec>>
bvars == <<objects, bvh, scan, calls>>
cvars == <<background, max_reflections, frames, sp, cpc>>
rvars == <<width, height, samples, camera, main, workers, mutex, image, writers,
           acquired, computed>>
vars == <<gvars, bvars, cvars, rvars>>

(***************************************************************************)
(* Bounds of the model                                                     *)
(***************************************************************************)
MaxCoord == 2      \* ray origins have coordinates in -MaxCoord..MaxCoord
MaxRadius == 2     \* sphere radii are 1..MaxRadius
MaxT == 3          \* finite range ends are 0..MaxT (world units)
MaxObjects == 3    \* a scene holds 0..MaxObjects primitives
MaxDepth == 3      \* max_reflections is 0..MaxDepth
MaxWidth == 2      \* a rendered image is 0..MaxWidth pixels wide
MaxHeight == 2     \* and 0..MaxHeight pixels high
MaxSamples == 2    \* samples per pixel: 1 or MaxSamples
MaxBandHeight == 24  \* the band arithmetic is examined for heights 0..MaxBandHeight
MaxBox == 1        \* corners of the boxes given to surrounding_box: -MaxBox..MaxBox
MaxFuzz == 8       \* finite fuzziness arguments are -MaxFuzz..MaxFuzz (quarters)

(***************************************************************************)
(* f32 on the grid                                                         *)
(***************************************************************************)
TScale == 2 * 2 * 3
Inf == 1000 * 1000
NaN == 7 * Inf
None == [none |-> TRUE]
\* F(e) with e evaluated once: a LET is evaluated again at every use
Bind(e, F(_)) == CHOOSE y \in {F(x) : x \in {e}} : TRUE

IsNaN(a) == a = NaN
\* IEEE comparisons: false as soon as one side is NaN
FLt(a, b) == ~IsNaN(a) /\ ~IsNaN(b) /\ a < b
FGt(a, b) == FLt(b, a)
FLe(a, b) == ~IsNaN(a) /\ ~IsNaN(b) /\ a <= b
\* f32::max and f32::min return the other argument when one is NaN
FMax(a, b) == IF IsNaN(a) THEN b ELSE IF IsNaN(b) THEN a ELSE IF a >= b THEN a ELSE b
FMin(a, b) == IF IsNaN(a) THEN b ELSE IF IsNaN(b) THEN a ELSE IF a <= b THEN a ELSE b
IsFinite(a) == a # NaN /\ a # Inf /\ a # -Inf

\* (num / d) * TScale for a direction component d: IEEE division, d = 0 included
FDiv(num, d) ==
    IF d # 0 THEN (TScale * num) \div d
    ELSE IF num = 0 THEN NaN
    ELSE IF num > 0 THEN Inf ELSE -Inf

\* t.mul_add(d, o) for a scaled t, a direction component d and an origin
\* coordinate o; the result is scaled by TScale
FMulAdd(t, d, o) ==
    IF IsNaN(t) THEN NaN
    ELSE IF ~IsFinite(t) THEN (IF d = 0 THEN NaN ELSE IF d > 0 THEN t ELSE -t)
    ELSE t * d + TScale * o

\* f32::sqrt, rounded down to the grid, for 0 <= n < 2^30: the root is
\* found digit by digit in base 32, the high digit first
SqrtDigit(n, low, step) ==
    low + step * (CHOOSE d \in 0..31 :
                      /\ (low + step * d) * (low + step * d) <= n
                      /\ n < (low + step * d + step) * (low + step * d + step))
ISqrt(n) ==
    Bind(n, LAMBDA v :
        Bind(SqrtDigit(v, 0, 32 * 32), LAMBDA high :
            Bind(SqrtDigit(v, high, 32), LAMBDA middle : SqrtDigit(v, middle, 1))))
IsSquare(n) == n >= 0 /\ ISqrt(n) * ISqrt(n) = n

\* f32::powf / powi for a whole exponent
RECURSIVE Pow(_, _)
Pow(b, e) == IF e = 0 THEN 1 ELSE b * Pow(b, e - 1)

(***************************************************************************)
(* Vec3 and Ray                                                            *)
(***************************************************************************)
Vec3(x, y, z) == <<x, y, z>>
VAdd(u, v) == <<u[1] + v[1], u[2] + v[2], u[3] + v[3]>>
VSub(u, v) == <<u[1] - v[1], u[2] - v[2], u[3] - v[3]>>
VMul(k, v) == <<k * v[1], k * v[2], k * v[3]>>
VNeg(v) == <<-v[1], -v[2], -v[3]>>
Dot(u, v) == u[1] * v[1] + u[2] * v[2] + u[3] * v[3]
Square(v) == Dot(v, v)
VZero == <<0, 0, 0>>

\* Ray::point(t), scaled by TScale
RayPoint(r, t) ==
    <<FMulAdd(t, r.direction[1], r.origin[1]),
      FMulAdd(t, r.direction[2], r.origin[2]),
      FMulAdd(t, r.direction[3], r.origin[3])>>

(***************************************************************************)
(* HitRecord                                                               *)
(***************************************************************************)
\* HitRecord::new: front_face starts true
HitRecord_new(t, hit_point, normal, material) ==
    [t |-> t, hit_point |-> hit_point, normal |-> normal,
     front_face |-> TRUE, material |-> material]

\* a slip: the flag is computed but the normal is never flipped
set_face_normal_noflip(record, r) ==
    [record EXCEPT !.front_face = Dot(r.direction, record.normal) < 0]

\* HitRecord::set_face_normal
set_face_normal(record, r) ==
    LET front == Dot(r.direction, record.normal) < 0
    IN  [record EXCEPT !.front_face = front,
                       !.normal = IF front THEN record.normal ELSE VNeg(record.normal)]

(***************************************************************************)
(* Materials (only what a hit record carries and what cast asks of them)   *)
(***************************************************************************)
\* A colour is one channel (the code treats the three alike), held as
\* CUnit * c.
CUnit == 2 * 2
Lambertian(albedo) == [kind |-> "lambertian", albedo |-> albedo]
\* Metal::new: fuzziness is held as CUnit * f, like a colour channel
Metal_new(albedo, fuzziness) ==
    [kind |-> "metal", albedo |-> albedo,
     fuzziness |-> IF FGt(fuzziness, CUnit) THEN CUnit ELSE fuzziness]
\* a Metal of fuzziness 1
Metal(albedo) == Metal_new(albedo, CUnit)
Light(emit) == [kind |-> "light", emit |-> emit]

RECURSIVE Hit(_, _, _, _)

(***************************************************************************)
(* Sphere                                                                  *)
(***************************************************************************)
Sphere_new(center, radius, material) ==
    [kind |-> "sphere", center |-> center, radius |-> radius, material |-> material]

\* Sphere::hit.  The record's normal is outward_normal scaled by
\* TScale * radius (a positive factor: direction and sign are the code's).
Sphere_hit(s, r, tmin, tmax) ==
    LET oc == VSub(r.origin, s.center)
        a == Square(r.direction)
        half_b == Dot(oc, r.direction)
        c == Square(oc) - s.radius * s.radius
        discriminant_over_4 == half_b * half_b - a * c
        half_sqrt == ISqrt(discriminant_over_4)
        root1 == (TScale * (-half_b - half_sqrt)) \div a
        root2 == (TScale * (-half_b + half_sqrt)) \div a
        out1 == FLt(root1, tmin) \/ FLt(tmax, root1)
        out2 == FLt(root2, tmin) \/ FLt(tmax, root2)
    IN  IF discriminant_over_4 < 0 \/ (out1 /\ out2) THEN None
        ELSE Bind(IF out1 THEN root2 ELSE root1, LAMBDA root :
             Bind(RayPoint(r, root), LAMBDA hit_point :
                 set_face_normal(
                     HitRecord_new(root, hit_point,
                                   VSub(hit_point, VMul(TScale, s.center)), s.material), r)))

\* Sphere::bounding_box
Sphere_bounding_box(s) ==
    [min |-> VSub(s.center, Vec3(s.radius, s.radius, s.radius)),
     max |-> VAdd(s.center, Vec3(s.radius, s.radius, s.radius))]

(***************************************************************************)
(* Axis-aligned rectangles.  A rectangle lies in the plane axis k = const; *)
(* a and b are its extents on the two other axes.                          *)
(***************************************************************************)
XyRect_new(x, y, k, material) == [kind |-> "xy", a |-> x, b |-> y, k |-> k, material |-> material]
XzRect_new(x, z, k, material) == [kind |-> "xz", a |-> x, b |-> z, k |-> k, material |-> material]
YzRect_new(y, z, k, material) == [kind |-> "yz", a |-> y, b |-> z, k |-> k, material |-> material]

\* the body the three hit methods share: ka is the constant axis, aa and ba
\* the axes of the extents, normal the literal normal of the method
Rect_hit(q, r, tmin, tmax, ka, aa, ba, normal) ==
    LET t == FDiv(q.k - r.origin[ka], r.direction[ka])
        u == FMulAdd(t, r.direction[aa], r.origin[aa])
        v == FMulAdd(t, r.direction[ba], r.origin[ba])
    IN  IF FLt(t, tmin) \/ FGt(t, tmax) THEN None
        ELSE IF \/ FLt(u, TScale * q.a[1]) \/ FGt(u, TScale * q.a[2])
                \/ FLt(v, TScale * q.b[1]) \/ FGt(v, TScale * q.b[2]) THEN None
        ELSE set_face_normal(HitRecord_new(t, RayPoint(r, t), normal, q.material), r)

XyRect_hit(q, r, tmin, tmax) == Rect_hit(q, r, tmin, tmax, 3, 1, 2, Vec3(0, 0, 1))
XzRect_hit(q, r, tmin, tmax) == Rect_hit(q, r, tmin, tmax, 2, 1, 3, Vec3(0, 1, 0))
YzRect_hit(q, r, tmin, tmax) == Rect_hit(q, r, tmin, tmax, 1, 2, 3, Vec3(0, 1, 0))

(***************************************************************************)
(* AaBox                                                                   *)
(***************************************************************************)
\* AaBox::new, with the faces the code lists
AaBox_new(min, max, material) ==
    [kind |-> "aabox", min |-> min, max |-> max,
     faces |-> << XyRect_new(<<min[1], max[1]>>, <<min[2], max[2]>>, min[3], material),
                  XyRect_new(<<min[1], max[1]>>, <<min[2], max[2]>>, max[3], material),
                  XzRect_new(<<min[1], max[1]>>, <<min[3], max[3]>>, min[2], material),
                  XzRect_new(<<min[1], max[1]>>, <<min[3], max[3]>>, min[2], material),
                  YzRect_new(<<min[2], max[2]>>, <<min[3], max[3]>>, max[1], material),
                  YzRect_new(<<min[2], max[2]>>, <<min[3], max[3]>>, max[1], material) >>]

(***************************************************************************)
(* Hitable::hit, by kind of object                                         *)
(***************************************************************************)
RECURSIVE ClosestFrom(_, _, _, _, _, _)

\* the loop of Vec<H>::hit and of AaBox::hit from index i on: each object is
\* asked with t_max tightened to the closest hit so far
ClosestFrom(hs, i, r, tmin, closest_t, closest_record) ==
    IF i > Len(hs) THEN closest_record
    ELSE LET record == Hit(hs[i], r, tmin, closest_t)
         IN  IF record # None
             THEN ClosestFrom(hs, i + 1, r, tmin, record.t, record)
             ELSE ClosestFrom(hs, i + 1, r, tmin, closest_t, closest_record)

\* impl Hitable for Vec<H>: hit
Vec_hit(hs, r, tmin, tmax) == ClosestFrom(hs, 1, r, tmin, tmax, None)

\* impl Hitable for AaBox: hit
AaBox_hit(b, r, tmin, tmax) == ClosestFrom(b.faces, 1, r, tmin, tmax, None)

(***************************************************************************)
(* Aabb                                                                    *)
(***************************************************************************)
Aabb_new(min, max) == [min |-> min, max |-> max]

Min2(a, b) == IF a <= b THEN a ELSE b
Max2(a, b) == IF a >= b THEN a ELSE b

\* a slip: the second box's corners are taken for the larger corner
surrounding_box_max_of_second(bbox0, bbox1) ==
    Aabb_new(Vec3(Min2(bbox0.min[1], bbox1.min[1]),
                  Min2(bbox0.min[2], bbox1.min[2]),
                  Min2(bbox0.min[3], bbox1.min[3])),
             bbox1.max)

\* Aabb::surrounding_box
surrounding_box(bbox0, bbox1) ==
    Aabb_new(Vec3(Min2(bbox0.min[1], bbox1.min[1]),
                  Min2(bbox0.min[2], bbox1.min[2]),
                  Min2(bbox0.min[3], bbox1.min[3])),
             Vec3(Max2(bbox0.max[1], bbox1.max[1]),
                  Max2(bbox0.max[2], bbox1.max[2]),
                  Max2(bbox0.max[3], bbox1.max[3])))

\* one turn of the loop of Aabb::hit: TRUE when the axis does not reject.
\* The loop body's t_min and t_max are fresh bindings (let), so every axis
\* is tested against the caller's tmin and tmax.
Aabb_hit_axis(b, r, tmin, tmax, axis) ==
    LET d == r.direction[axis]
        ta == FDiv(b.min[axis] - r.origin[axis], d)
        tb == FDiv(b.max[axis] - r.origin[axis], d)
        t0 == IF d < 0 THEN tb ELSE ta
        t1 == IF d < 0 THEN ta ELSE tb
    IN  ~FLe(FMin(t1, tmax), FMax(t0, tmin))

\* Aabb::hit
Aabb_hit(b, r, tmin, tmax) ==
    \A axis \in 1..3 : Aabb_hit_axis(b, r, tmin, tmax, axis)

(***************************************************************************)
(* Object and the bounding boxes                                           *)
(***************************************************************************)
\* MovingSphere: times are held in tenths, so that the interval (0., 0.1) of
\* Object::new is on the grid
TimeScale == 2 * 5
MovingSphere_new(center_interval, time_interval, radius, material) ==
    [kind |-> "moving_sphere", center_interval |-> center_interval,
     time_interval |-> time_interval, radius |-> radius, material |-> material]

\* MovingSphere::center(time)
MovingSphere_center(s, time) ==
    [k \in 1..3 |->
        s.center_interval[1][k]
            + ((time - s.time_interval[1]) * (s.center_interval[2][k] - s.center_interval[1][k]))
                  \div (s.time_interval[2] - s.time_interval[1])]

\* MovingSphere::bounding_box(time_interval)
MovingSphere_bounding_box(s, time_interval) ==
    LET radii == Vec3(s.radius, s.radius, s.radius)
        initial_bounding_box ==
            Aabb_new(VSub(MovingSphere_center(s, time_interval[1]), radii),
                     VAdd(MovingSphere_center(s, time_interval[1]), radii))
        final_bounding_box ==
            Aabb_new(VSub(MovingSphere_center(s, time_interval[2]), radii),
                     VAdd(MovingSphere_center(s, time_interval[2]), radii))
    IN  surrounding_box(initial_bounding_box, final_bounding_box)

\* bounding_box of an Object or a BvhNode: the cached box, whatever the
\* time interval asked
bounding_box(h) == h.bbox

\* Hitable::bounding_box(time_interval), by kind of object
Hitable_bounding_box(h, time_interval) ==
    CASE h.kind = "sphere" -> Sphere_bounding_box(h)
      [] h.kind = "moving_sphere" -> MovingSphere_bounding_box(h, time_interval)
      [] h.kind = "aabox" -> Aabb_new(h.min, h.max)
      [] h.kind = "unbounded" -> None
      [] h.kind \in {"object", "bvh"} -> bounding_box(h)

\* the interval (0., 0.1) that Object::new asks the volume's box for
ObjectInterval == <<0, TimeScale \div 10>>

\* volume.bounding_box((0., 0.1))
Volume_bounding_box(h) == Hitable_bounding_box(h, ObjectInterval)

\* Object::new: the volume's box is computed once and kept
Object_new(volume) ==
    [kind |-> "object", volume |-> volume, bbox |-> Volume_bounding_box(volume)]

(***************************************************************************)
(* BvhNode                                                                 *)
(***************************************************************************)
\* BvhNode::default()
BvhNode_default == [kind |-> "bvh", bbox |-> None, left |-> None, right |-> None]

\* the comparator closure of BvhNode::new: TRUE for Ordering::Less
comparator_less(object1, object2, axis) ==
    LET bbox_1 == bounding_box(object1)
        bbox_2 == bounding_box(object2)
    IN  IF bbox_1 = None \/ bbox_2 = None THEN TRUE
        ELSE bbox_1.min[axis] < bbox_2.min[axis]

\* a slip: the list is left as it was
sort_by_unsorted(objs, axis) == objs

\* objects.sort_by(comparator): a stable sort (insertion from the left; an
\* element moves in front of those it is Less than)
RECURSIVE InsertSorted(_, _, _)
InsertSorted(sorted, o, axis) ==
    IF sorted = <<>> THEN <<o>>
    ELSE LET last == sorted[Len(sorted)]
         IN  IF comparator_less(o, last, axis)
             THEN Append(InsertSorted(SubSeq(sorted, 1, Len(sorted) - 1), o, axis), last)
             ELSE Append(sorted, o)

RECURSIVE sort_by(_, _)
sort_by(objs, axis) ==
    IF objs = <<>> THEN <<>>
    ELSE InsertSorted(sort_by(SubSeq(objs, 1, Len(objs) - 1), axis), objs[Len(objs)], axis)

\* the number of BvhNode::new calls (axis draws) for n >= 1 objects
RECURSIVE NodeCount(_)
NodeCount(n) ==
    IF n <= 2 THEN 1 ELSE 1 + NodeCount(n \div 2) + NodeCount(n - n \div 2)

\* a slip: the node keeps the box of its left child
BvhNode_bbox_of_left(left, right) ==
    IF left = None THEN None ELSE bounding_box(left)

\* the box a node caches from its children
BvhNode_bbox(left, right) ==
    LET left_bbox == IF left = None THEN None ELSE bounding_box(left)
    IN  IF right = None THEN left_bbox
        ELSE LET right_bbox == bounding_box(right)
             IN  IF left_bbox = None \/ right_bbox = None THEN None
                 ELSE surrounding_box(left_bbox, right_bbox)

\* BvhNode::new for a non-empty list.  rng is the sequence of axes
\* (0..2) drawn by this call and the calls it makes, in call order.
RECURSIVE BvhNode_new(_, _)
BvhNode_new(objs, rng) ==
    LET axis == rng[1] + 1
        n == Len(objs)
        sorted == sort_by(objs, axis)
        first_half == SubSeq(sorted, 1, n \div 2)
        second_half == SubSeq(sorted, n \div 2 + 1, n)
        nl == NodeCount(n \div 2)
        left == IF n = 1 THEN objs[1]
                ELSE IF n = 2
                     THEN (IF comparator_less(objs[1], objs[2], axis) THEN objs[1] ELSE objs[2])
                     ELSE BvhNode_new(first_half, SubSeq(rng, 2, 1 + nl))
        right == IF n = 1 THEN None
                 ELSE IF n = 2
                      THEN (IF comparator_less(objs[1], objs[2], axis) THEN objs[2] ELSE objs[1])
                      ELSE BvhNode_new(second_half, SubSeq(rng, 2 + nl, Len(rng)))
    IN  [kind |-> "bvh", bbox |-> BvhNode_bbox(left, right), left |-> left, right |-> right]

\* Scene::new: the BVH of the scene
Scene_bvh(objs, rng) ==
    IF objs = <<>> THEN BvhNode_default ELSE BvhNode_new(objs, rng)

\* impl Hitable for BvhNode: hit
BvhNode_hit(node, r, tmin, tmax) ==
    IF node.bbox = None \/ ~Aabb_hit(node.bbox, r, tmin, tmax) THEN None
    ELSE Bind(IF node.left = None THEN None ELSE Hit(node.left, r, tmin, tmax),
              LAMBDA left_record :
                  Bind(IF node.right = None THEN None
                       ELSE Hit(node.right, r, tmin,
                                IF left_record = None THEN tmax ELSE left_record.t),
                       LAMBDA right_record :
                           IF right_record # None THEN right_record ELSE left_record))

Hit(h, r, tmin, tmax) ==
    CASE h.kind = "sphere" -> Sphere_hit(h, r, tmin, tmax)
      [] h.kind = "xy" -> XyRect_hit(h, r, tmin, tmax)
      [] h.kind = "xz" -> XzRect_hit(h, r, tmin, tmax)
      [] h.kind = "yz" -> YzRect_hit(h, r, tmin, tmax)
      [] h.kind = "aabox" -> AaBox_hit(h, r, tmin, tmax)
      [] h.kind = "object" -> Hit(h.volume, r, tmin, tmax)
      [] h.kind = "bvh" -> BvhNode_hit(h, r, tmin, tmax)

(***************************************************************************)
(* Intersection queries: the inputs are drawn, then one query is applied   *)
(***************************************************************************)
Coords == -MaxCoord..MaxCoord
Origins == {Vec3(x, y, z) : x \in Coords, y \in Coords, z \in -1..1}
Dirs == {Vec3(x, y, z) : x \in -1..1, y \in -1..1, z \in -1..1} \ {VZero}
Normals == {Vec3(x, y, z) : x \in -1..1, y \in -1..1, z \in -1..1}
TMins == {TScale * k : k \in 0..(MaxT - 1)}
TMaxs == {TScale * k : k \in 1..MaxT} \cup {Inf}

Matte == Lambertian(2)

SphereInputs ==
    {Sphere_new(c, rad, Matte) : c \in {Vec3(0, 0, 0), Vec3(1, 0, 1)}, rad \in 1..MaxRadius}
BoxInputs ==
    {AaBox_new(Vec3(-1, -1, -1), Vec3(1, 1, 1), Matte),
     AaBox_new(Vec3(0, -1, 0), Vec3(2, 0, 1), Matte)}
RecordInputs ==
    {[kind |-> "record", record |-> HitRecord_new(TScale, VZero, n, Matte)] : n \in Normals}

\* the discriminant of the sphere quadratic is a square (or negative), so
\* that f32::sqrt is exact on the grid
ExactSphere(s, r) ==
    LET oc == VSub(r.origin, s.center)
        d4 == Dot(oc, r.direction) * Dot(oc, r.direction)
                  - Square(r.direction) * (Square(oc) - s.radius * s.radius)
    IN  d4 < 0 \/ IsSquare(d4)

\* the variables of the other parts stay as they are
BvhIdle == objects = <<>> /\ bvh = None /\ scan = None /\ calls = <<>>
CastIdle ==
    /\ background = None /\ max_reflections = 0
    /\ frames = <<>> /\ sp = 0 /\ cpc = "idle"
RenderIdle ==
    /\ width = 0 /\ height = 0 /\ samples = 1 /\ camera = None
    /\ main = None /\ workers = <<>> /\ mutex = None
    /\ image = <<>> /\ writers = <<>> /\ acquired = <<>> /\ computed = <<>>
GeomFrame == UNCHANGED <<bvars, cvars, rvars>>

GeomInit ==
    /\ BvhIdle /\ CastIdle /\ RenderIdle
    /\ gpc = "input"
    /\ rec = None
    /\ shape \in SphereInputs \cup BoxInputs \cup RecordInputs
    /\ ray \in [origin : Origins, direction : Dirs]
    /\ t_min \in TMins
    /\ t_max \in TMaxs
    /\ t_min < t_max
    /\ shape.kind = "sphere" => ExactSphere(shape, ray)
    /\ shape.kind = "record" => (ray.origin = VZero /\ t_min = 0 /\ t_max = Inf)

QuerySphere ==
    /\ gpc = "input" /\ shape.kind = "sphere"
    /\ rec' = Sphere_hit(shape, ray, t_min, t_max)
    /\ gpc' = "Sphere_hit"
    /\ UNCHANGED <<shape, ray, t_min, t_max>>
    /\ GeomFrame

QueryAaBox ==
    /\ gpc = "input" /\ shape.kind = "aabox"
    /\ rec' = AaBox_hit(shape, ray, t_min, t_max)
    /\ gpc' = "AaBox_hit"
    /\ UNCHANGED <<shape, ray, t_min, t_max>>
    /\ GeomFrame

ApplySetFaceNormal ==
    /\ gpc = "input" /\ shape.kind = "record"
    /\ rec' = set_face_normal(shape.record, ray)
    /\ gpc' = "set_face_normal"
    /\ UNCHANGED <<shape, ray, t_min, t_max>>
    /\ GeomFrame

GeomNext == QuerySphere \/ QueryAaBox \/ ApplySetFaceNormal

GeomSpec == GeomInit /\ [][GeomNext]_vars


(***************************************************************************)
(* Bounding boxes: Aabb::surrounding_box applied to two drawn boxes, in    *)
(* both orders and to a box and itself                                     *)
(***************************************************************************)
BoxCorners == {Vec3(x, y, z) : x \in -MaxBox..MaxBox, y \in 0..MaxBox, z \in 0..1}
Boxes ==
    {Aabb_new(c[1], c[2]) :
        c \in {d \in BoxCorners \X BoxCorners : \A k \in 1..3 : d[1][k] <= d[2][k]}}
BoxPairs == {[kind |-> "boxes", bbox0 |-> a, bbox1 |-> b] : a \in Boxes, b \in Boxes}

\* the volumes wrapped into an Object and the intervals its box is asked for
\* (in tenths): a sphere, a MovingSphere at rest, and two that move
WrappedVolumes ==
    {Sphere_new(VZero, 1, Matte),
     MovingSphere_new(<<VZero, VZero>>, <<0, TimeScale>>, 1, Matte),
     MovingSphere_new(<<VZero, Vec3(TimeScale, 0, 0)>>, <<0, TimeScale>>, 1, Matte),
     MovingSphere_new(<<Vec3(0, TimeScale, 0), VZero>>, <<0, TimeScale>>, 2, Matte)}
TimeIntervals ==
    {<<0, 0>>, ObjectInterval, <<0, TimeScale \div 2>>, <<0, TimeScale>>,
     <<TimeScale \div 2, TimeScale>>}
ObjectArgs ==
    {[kind |-> "object_args", volume |-> v, time_interval |-> i] :
        v \in WrappedVolumes, i \in TimeIntervals}

BoxInit ==
    /\ BvhIdle /\ CastIdle /\ RenderIdle
    /\ gpc = "input"
    /\ rec = None
    /\ ray = None /\ t_min = 0 /\ t_max = Inf
    /\ shape \in BoxPairs \cup ObjectArgs

ApplySurroundingBox ==
    /\ gpc = "input" /\ shape.kind = "boxes"
    /\ rec' = [ab |-> surrounding_box(shape.bbox0, shape.bbox1),
               ba |-> surrounding_box(shape.bbox1, shape.bbox0),
               aa |-> surrounding_box(shape.bbox0, shape.bbox0)]
    /\ gpc' = "surrounding_box"
    /\ UNCHANGED <<shape, ray, t_min, t_max>>
    /\ GeomFrame

\* the box of the volume, then Object::new(volume) and the box of the object,
\* for the same interval
QueryObjectBox ==
    /\ gpc = "input" /\ shape.kind = "object_args"
    /\ rec' = [volume |-> Hitable_bounding_box(shape.volume, shape.time_interval),
               object |-> Hitable_bounding_box(Object_new(shape.volume), shape.time_interval)]
    /\ gpc' = "Object_bounding_box"
    /\ UNCHANGED <<shape, ray, t_min, t_max>>
    /\ GeomFrame

BoxNext == ApplySurroundingBox \/ QueryObjectBox

BoxSpec == BoxInit /\ [][BoxNext]_vars

(***************************************************************************)
(* Aabb::hit applied to a box, a ray and a range                           *)
(***************************************************************************)
\* a cube, a slab-shaped box, and a box without thickness on z
HitBoxes ==
    {Aabb_new(Vec3(0, 0, 0), Vec3(1, 1, 1)),
     Aabb_new(Vec3(-1, 0, -1), Vec3(2, 1, 1)),
     Aabb_new(Vec3(0, 0, 0), Vec3(1, 1, 0))}

AabbInit ==
    /\ BvhIdle /\ CastIdle /\ RenderIdle
    /\ gpc = "input"
    /\ rec = None
    /\ shape \in {[kind |-> "aabb", bbox |-> b] : b \in HitBoxes}
    /\ ray \in [origin : Origins, direction : Dirs]
    /\ t_min \in TMins
    /\ t_max \in TMaxs

ApplyAabbHit ==
    /\ gpc = "input"
    /\ rec' = [hit |-> Aabb_hit(shape.bbox, ray, t_min, t_max)]
    /\ gpc' = "Aabb_hit"
    /\ UNCHANGED <<shape, ray, t_min, t_max>>
    /\ GeomFrame

AabbSpec == AabbInit /\ [][ApplyAabbHit]_vars

(***************************************************************************)
(* A scene, its BVH and a ray: Scene::new builds the tree (the axes drawn  *)
(* by the nodes are chosen freely), then the tree and the list are asked   *)
(***************************************************************************)
SceneSpheres ==
    {Sphere_new(Vec3(0, 0, 0), 1, Matte),
     Sphere_new(Vec3(2, 0, 0), 1, Light(4)),
     Sphere_new(Vec3(0, 1, 0), 2, Lambertian(1))}
SceneObjects == {Object_new(s) : s \in SceneSpheres}

RECURSIVE ListsOf(_, _)
ListsOf(S, n) ==
    IF n = 0 THEN {<<>>}
    ELSE ListsOf(S, n - 1) \cup
         {Append(l, o) : l \in {m \in ListsOf(S, n - 1) : Len(m) = n - 1}, o \in S}

\* the spheres are centred in the plane z = 0, so rays start in it and
\* point to one side of it
BvhOrigins == {Vec3(x, y, 0) : x \in -2..2, y \in 0..1}
BvhDirs == {d \in Dirs : d[3] >= 0}
BvhRanges == {<<0, 2 * TScale>>, <<0, Inf>>, <<TScale, 2 * TScale>>, <<TScale, Inf>>}

BvhInit ==
    /\ CastIdle /\ RenderIdle
    /\ gpc = "input"
    /\ shape = None
    /\ rec = None
    /\ scan = None
    /\ bvh = None
    /\ calls = <<>>
    /\ objects \in ListsOf(SceneObjects, MaxObjects)
    /\ ray \in [origin : BvhOrigins, direction : BvhDirs]
    /\ \E range \in BvhRanges : t_min = range[1] /\ t_max = range[2]
    /\ \A i \in 1..Len(objects) : ExactSphere(objects[i].volume, ray)

\* Scene::new
BuildScene ==
    /\ gpc = "input"
    /\ \E rng \in [1..NodeCount(Len(objects)) -> 0..2] : bvh' = Scene_bvh(objects, rng)
    /\ gpc' = "built"
    /\ UNCHANGED <<shape, ray, t_min, t_max, rec, objects, scan, calls>>
    /\ UNCHANGED <<cvars, rvars>>

\* the same ray is given to BvhNode::hit and to Vec<Object>::hit
QueryScene ==
    /\ gpc = "built"
    /\ rec' = BvhNode_hit(bvh, ray, t_min, t_max)
    /\ scan' = Vec_hit(objects, ray, t_min, t_max)
    /\ gpc' = "hit"
    /\ UNCHANGED <<shape, ray, t_min, t_max, objects, bvh, calls>>
    /\ UNCHANGED <<cvars, rvars>>

BvhNext == BuildScene \/ QueryScene

BvhSpec == BvhInit /\ [][BvhNext]_vars

\* C1: BvhNode::hit on the built tree returns a hit exactly when the linear
\* scan Vec<Object>::hit over the same primitives returns one, and both hits
\* have the same t, for every list size, ray, range and choice of axes.
C1_BvhEqualsLinearScan ==
    gpc = "hit" =>
        /\ (rec = None) <=> (scan = None)
        /\ rec # None => rec.t = scan.t


(***************************************************************************)
(* Materials: scatter and emitted.  A scatter that draws random numbers    *)
(* is the set of its outcomes: None, or a scattered ray and an attenuation.*)
(* A scattered ray starts at the hit point, rounded to the grid of ray     *)
(* origins, and its random direction is drawn from ScatterDirs.            *)
(***************************************************************************)
ScatterDirs == {d \in Dirs : d[3] = 0}
GridPoint(p) == Vec3(p[1] \div TScale, p[2] \div TScale, p[3] \div TScale)
Scattered(record, d, attenuation) ==
    [ray |-> [origin |-> GridPoint(record.hit_point), direction |-> d],
     attenuation |-> attenuation]

\* Lambertian::scatter: normal + random_unit_vector() (the normal itself
\* when that sum is near zero) points to the normal's side
Lambertian_scatter(m, r, record) ==
    {Scattered(record, d, m.albedo) : d \in {e \in ScatterDirs : Dot(e, record.normal) > 0}}

\* Metal::scatter: the fuzzed reflection is kept when it leaves the surface
Metal_scatter(m, r, record) ==
    {IF Dot(d, record.normal) > 0 THEN Scattered(record, d, m.albedo) ELSE None :
        d \in ScatterDirs}

\* Light::scatter
Light_scatter(m, r, record) == {None}

Material_scatter(m, r, record) ==
    CASE m.kind = "lambertian" -> Lambertian_scatter(m, r, record)
      [] m.kind = "metal" -> Metal_scatter(m, r, record)
      [] m.kind = "light" -> Light_scatter(m, r, record)

\* Material::emitted: zero unless the material overrides it (Light)
Material_emitted(m) == IF m.kind = "light" THEN m.emit ELSE 0

(***************************************************************************)
(* Scene: the background                                                   *)
(***************************************************************************)
Background_Color(c) == [kind |-> "color", c1 |-> c, c2 |-> c]
Background_Gradient(c1, c2) == [kind |-> "gradient", c1 |-> c1, c2 |-> c2]

\* unit_direction.y, and cast's t = 0.5 * (unit_direction.y + 1), both held
\* times UnitScale (Vec3::unit divides by the length)
UnitScale == 10 * 10
\* Vec3::length, times UnitScale; tabulated for the short vectors
LengthTable == [q \in 0..(8 * 8) |-> ISqrt(q * UnitScale * UnitScale)]
Length(v) ==
    IF Square(v) \in DOMAIN LengthTable THEN LengthTable[Square(v)]
    ELSE ISqrt(Square(v) * UnitScale * UnitScale)
Unit_y(d) == (d[2] * UnitScale * UnitScale) \div Length(d)
Background_t(r) == (Unit_y(r.direction) + UnitScale) \div 2

\* Background::color(t), for t held times UnitScale
Background_color(bg, t) ==
    IF bg.kind = "color" THEN bg.c1
    ELSE (t * bg.c1 + (UnitScale - t) * bg.c2) \div UnitScale

(***************************************************************************)
(* Ray::new, Dielectric, Isotropic and the random vectors.  Unit vectors,  *)
(* refractive indices and the numbers drawn by gen::<f32>() are held times *)
(* UnitScale.                                                              *)
(***************************************************************************)
\* a call that panicked instead of returning
Panicked == [panic |-> TRUE]

\* the two builds: debug_assert! is compiled in with debug assertions only
Builds == {"debug", "release"}

\* Vec3::is_zero
is_zero(v) == v[1] = 0 /\ v[2] = 0 /\ v[3] = 0

\* Ray::new
Ray_new(origin, direction, build) ==
    IF build = "debug" /\ is_zero(direction) THEN Panicked
    ELSE [origin |-> origin, direction |-> direction]

\* Vec3::unit, times UnitScale: the zero vector is returned as it is
unit(v) ==
    IF is_zero(v) THEN v
    ELSE [k \in 1..3 |-> (v[k] * UnitScale * UnitScale) \div Length(v)]

\* reflect(v, n) for v times UnitScale and an integer normal n
reflect(v, n) == VSub(v, VMul(2 * Dot(v, n), n))

\* refract(uv, n, etai_over_etat)
refract(uv, n, etai_over_etat) ==
    LET cos_theta == FMin(Dot(VNeg(uv), n), UnitScale)
        r_out_perp == [k \in 1..3 |->
                          (etai_over_etat * (uv[k] + cos_theta * n[k])) \div UnitScale]
        rest == UnitScale * UnitScale - Square(r_out_perp)
        r_out_parallel == VMul(-ISqrt(IF rest < 0 THEN -rest ELSE rest), n)
    IN  VAdd(r_out_perp, r_out_parallel)

\* schlick(cosine, refraction_index); the fifth power is rounded to the grid
\* after every product
schlick(cosine, refraction_index) ==
    LET q == ((UnitScale - refraction_index) * UnitScale) \div (UnitScale + refraction_index)
        r0 == (q * q) \div UnitScale
        x == UnitScale - cosine
        square == (x * x) \div UnitScale
        fourth == (square * square) \div UnitScale
        fifth == (fourth * x) \div UnitScale
    IN  ((UnitScale - r0) * fifth) \div UnitScale + r0

Dielectric(refractive_index) ==
    [kind |-> "dielectric", refractive_index |-> refractive_index]

\* a slip: a reflected ray loses a quarter of its energy
Dielectric_scatter_dim(m, r, record, gen, build) ==
    [ray |-> Ray_new(GridPoint(record.hit_point), reflect(unit(r.direction), record.normal),
                     build),
     attenuation |-> CUnit - 1]

\* Dielectric::scatter, for the number gen drawn by rng.gen::<f32>()
Dielectric_scatter(m, r, record, gen, build) ==
    LET refraction_ratio == IF record.front_face
                            THEN (UnitScale * UnitScale) \div m.refractive_index
                            ELSE m.refractive_index
        unit_direction == unit(r.direction)
        cos_theta == FMin(Dot(VNeg(unit_direction), record.normal), UnitScale)
        radicand == UnitScale * UnitScale - cos_theta * cos_theta
        sin_theta == IF radicand < 0 THEN NaN ELSE ISqrt(radicand)
        cannot_refract ==
            ~IsNaN(sin_theta) /\ (refraction_ratio * sin_theta) \div UnitScale > UnitScale
        direction == IF cannot_refract \/ schlick(cos_theta, refraction_ratio) > gen
                     THEN reflect(unit_direction, record.normal)
                     ELSE refract(unit_direction, record.normal, refraction_ratio)
        scattered == Ray_new(GridPoint(record.hit_point), direction, build)
    IN  IF scattered = Panicked THEN Panicked
        ELSE [ray |-> scattered, attenuation |-> CUnit]

\* random_in_unit_sphere: the vectors it can return, held in quarters.  The
\* three coordinates are drawn from [-1, 1); while the vector is not inside
\* the unit sphere it is multiplied by a number drawn from [0, 1).
RandUnit == 2 * 2
RandCoords == {-RandUnit, -(RandUnit \div 2), 0, RandUnit \div 2}
RandFactors == {0, RandUnit \div 2}
RECURSIVE Shrunk(_)
Shrunk(p) ==
    IF Square(p) >= RandUnit * RandUnit
    THEN UNION {Shrunk([k \in 1..3 |-> (p[k] * g) \div RandUnit]) : g \in RandFactors}
    ELSE {p}
random_in_unit_sphere ==
    UNION {Shrunk(Vec3(x, y, z)) : x \in RandCoords, y \in RandCoords, z \in RandCoords}

Isotropic(albedo) == [kind |-> "isotropic", albedo |-> albedo]

\* Isotropic::scatter, for the vector p returned by random_in_unit_sphere()
Isotropic_scatter(m, r, record, p, build) ==
    LET scattered == Ray_new(GridPoint(record.hit_point), p, build)
    IN  IF scattered = Panicked THEN Panicked
        ELSE [ray |-> scattered, attenuation |-> m.albedo]

(***************************************************************************)
(* Materials and rays built from drawn arguments                           *)
(***************************************************************************)
Albedos == 0..CUnit
Fuzzinesses == (-MaxFuzz..MaxFuzz) \cup {Inf, -Inf, NaN}
MetalArgs ==
    {[kind |-> "metal_args", albedo |-> a, fuzziness |-> f] : a \in Albedos, f \in Fuzzinesses}


\* a hit record as a scatter receives it: axis-aligned unit normal, either face
ScatterRecords ==
    {[HitRecord_new(TScale, VMul(TScale, n), n, Matte) EXCEPT !.front_face = f] :
        n \in {v \in Normals : Square(v) = 1}, f \in BOOLEAN}
\* the incoming rays: a ray with a zero direction exists in a release build only
IncomingRays(build) ==
    [origin : {VZero}, direction : IF build = "debug" THEN Dirs ELSE Dirs \cup {VZero}]
RefractiveIndices == {UnitScale, (3 * UnitScale) \div 2, 2 * UnitScale}
Gens == {0, UnitScale \div 4, UnitScale \div 2, (3 * UnitScale) \div 4}
DielectricArgs ==
    UNION {{[kind |-> "dielectric_args", material |-> Dielectric(i), ray |-> r,
             record |-> h, gen |-> g, build |-> b] :
               i \in RefractiveIndices, h \in ScatterRecords, g \in Gens,
               r \in IncomingRays(b)} : b \in Builds}
IsotropicArgs ==
    {[kind |-> "isotropic_args", material |-> Isotropic(a), record |-> h, p |-> p,
      build |-> b] :
        a \in {CUnit \div 2}, h \in {x \in ScatterRecords : x.front_face},
        p \in random_in_unit_sphere, b \in Builds}
RayArgs ==
    {[kind |-> "ray_args", origin |-> o, direction |-> d, build |-> b] :
        o \in {VZero, Vec3(1, 0, -1)}, d \in Dirs \cup {VZero}, b \in Builds}

MaterialInputs == MetalArgs \cup DielectricArgs \cup IsotropicArgs \cup RayArgs

MaterialInit ==
    /\ BvhIdle /\ CastIdle /\ RenderIdle
    /\ gpc = "input"
    /\ rec = None
    /\ ray = None /\ t_min = 0 /\ t_max = Inf
    /\ shape \in MaterialInputs

ApplyMetalNew ==
    /\ gpc = "input" /\ shape.kind = "metal_args"
    /\ rec' = Metal_new(shape.albedo, shape.fuzziness)
    /\ gpc' = "Metal_new"
    /\ UNCHANGED <<shape, ray, t_min, t_max>>
    /\ GeomFrame

ApplyDielectricScatter ==
    /\ gpc = "input" /\ shape.kind = "dielectric_args"
    /\ rec' = Dielectric_scatter(shape.material, shape.ray, shape.record, shape.gen,
                                 shape.build)
    /\ gpc' = "Dielectric_scatter"
    /\ UNCHANGED <<shape, ray, t_min, t_max>>
    /\ GeomFrame

ApplyIsotropicScatter ==
    /\ gpc = "input" /\ shape.kind = "isotropic_args"
    /\ rec' = Isotropic_scatter(shape.material, None, shape.record, shape.p, shape.build)
    /\ gpc' = "Isotropic_scatter"
    /\ UNCHANGED <<shape, ray, t_min, t_max>>
    /\ GeomFrame

ApplyRayNew ==
    /\ gpc = "input" /\ shape.kind = "ray_args"
    /\ rec' = Ray_new(shape.origin, shape.direction, shape.build)
    /\ gpc' = "Ray_new"
    /\ UNCHANGED <<shape, ray, t_min, t_max>>
    /\ GeomFrame

MaterialNext ==
    ApplyMetalNew \/ ApplyDielectricScatter \/ ApplyIsotropicScatter \/ ApplyRayNew

MaterialSpec == MaterialInit /\ [][MaterialNext]_vars

(***************************************************************************)
(* The three rectangles asked with one ray each.                           *)
(***************************************************************************)
RectExtents == {<<-1, 1>>, <<0, 2>>}
RectInputs ==
    {XyRect_new(a, b, k, Matte) : a \in RectExtents, b \in RectExtents, k \in 0..1}
        \cup {XzRect_new(a, b, k, Matte) : a \in RectExtents, b \in RectExtents, k \in 0..1}
        \cup {YzRect_new(a, b, k, Matte) : a \in RectExtents, b \in RectExtents, k \in 0..1}

RectInit ==
    /\ BvhIdle /\ CastIdle /\ RenderIdle
    /\ gpc = "input"
    /\ rec = None
    /\ shape \in RectInputs
    /\ ray \in [origin : Origins, direction : Dirs]
    /\ \E range \in {<<0, Inf>>, <<TScale, MaxT * TScale>>} :
           t_min = range[1] /\ t_max = range[2]

QueryXyRect ==
    /\ gpc = "input" /\ shape.kind = "xy"
    /\ rec' = XyRect_hit(shape, ray, t_min, t_max)
    /\ gpc' = "Rect_hit"
    /\ UNCHANGED <<shape, ray, t_min, t_max>>
    /\ GeomFrame

QueryXzRect ==
    /\ gpc = "input" /\ shape.kind = "xz"
    /\ rec' = XzRect_hit(shape, ray, t_min, t_max)
    /\ gpc' = "Rect_hit"
    /\ UNCHANGED <<shape, ray, t_min, t_max>>
    /\ GeomFrame

QueryYzRect ==
    /\ gpc = "input" /\ shape.kind = "yz"
    /\ rec' = YzRect_hit(shape, ray, t_min, t_max)
    /\ gpc' = "Rect_hit"
    /\ UNCHANGED <<shape, ray, t_min, t_max>>
    /\ GeomFrame

RectNext == QueryXyRect \/ QueryXzRect \/ QueryYzRect

RectSpec == RectInit /\ [][RectNext]_vars

(***************************************************************************)
(* Translate and RotateY.  The directions given are never zero, so the     *)
(* Ray::new inside returns a ray in every build.  Angles are whole quarter *)
(* turns, whose sine and cosine are on the grid.                           *)
(***************************************************************************)
Translate_new(hitable, offset) ==
    [kind |-> "translate", hitable |-> hitable, offset |-> offset]

\* impl Hitable for Translate: hit (hit points are held times TScale)
Translate_hit(tr, r, tmin, tmax) ==
    LET translated_ray == Ray_new(VSub(r.origin, tr.offset), r.direction, "debug")
    IN  Bind(Hit(tr.hitable, translated_ray, tmin, tmax), LAMBDA record :
            IF record = None THEN None
            ELSE set_face_normal(
                     [record EXCEPT !.hit_point = VAdd(record.hit_point,
                                                       VMul(TScale, tr.offset))],
                     translated_ray))

\* sin and cos of angle.to_radians(), angle in quarter turns
QuarterSin(q) == <<0, 1, 0, -1>>[(q % 4) + 1]
QuarterCos(q) == <<1, 0, -1, 0>>[(q % 4) + 1]

\* RotateY::new (the fields hit reads)
RotateY_new(hitable, angle) ==
    [kind |-> "rotate_y", hitable |-> hitable,
     sin_theta |-> QuarterSin(angle), cos_theta |-> QuarterCos(angle)]

\* the two rotations of RotateY::hit: into the object's space and back
RotateIn(ro, v) ==
    Vec3(ro.cos_theta * v[1] - ro.sin_theta * v[3], v[2],
         ro.sin_theta * v[1] + ro.cos_theta * v[3])
RotateOut(ro, v) ==
    Vec3(ro.cos_theta * v[1] + ro.sin_theta * v[3], v[2],
         -ro.sin_theta * v[1] + ro.cos_theta * v[3])

\* impl Hitable for RotateY: hit
RotateY_hit(ro, r, tmin, tmax) ==
    LET rotated_ray == Ray_new(RotateIn(ro, r.origin), RotateIn(ro, r.direction), "debug")
    IN  Bind(Hit(ro.hitable, rotated_ray, tmin, tmax), LAMBDA record :
            IF record = None THEN None
            ELSE set_face_normal(
                     [record EXCEPT !.hit_point = RotateOut(ro, record.hit_point),
                                    !.normal = RotateOut(ro, record.normal)],
                     rotated_ray))

Offsets == {Vec3(1, 0, 0), Vec3(0, -1, 1)}
TranslateInputs == {Translate_new(h, o) : h \in SphereInputs, o \in Offsets}
RotateInputs == {RotateY_new(h, q) : h \in SphereInputs, q \in 0..3}
\* the ray the wrapped object is asked with
InnerRay(h, r) ==
    IF h.kind = "translate" THEN [origin |-> VSub(r.origin, h.offset), direction |-> r.direction]
    ELSE [origin |-> RotateIn(h, r.origin), direction |-> RotateIn(h, r.direction)]

TransformInit ==
    /\ BvhIdle /\ CastIdle /\ RenderIdle
    /\ gpc = "input"
    /\ rec = None
    /\ shape \in TranslateInputs \cup RotateInputs
    /\ ray \in [origin : Origins, direction : Dirs]
    /\ \E range \in {<<0, Inf>>, <<TScale, MaxT * TScale>>} :
           t_min = range[1] /\ t_max = range[2]
    /\ ExactSphere(shape.hitable, InnerRay(shape, ray))

QueryTranslate ==
    /\ gpc = "input" /\ shape.kind = "translate"
    /\ rec' = Translate_hit(shape, ray, t_min, t_max)
    /\ gpc' = "Translate_hit"
    /\ UNCHANGED <<shape, ray, t_min, t_max>>
    /\ GeomFrame

QueryRotateY ==
    /\ gpc = "input" /\ shape.kind = "rotate_y"
    /\ rec' = RotateY_hit(shape, ray, t_min, t_max)
    /\ gpc' = "RotateY_hit"
    /\ UNCHANGED <<shape, ray, t_min, t_max>>
    /\ GeomFrame

TransformNext == QueryTranslate \/ QueryRotateY

TransformSpec == TransformInit /\ [][TransformNext]_vars

(***************************************************************************)
(* ConstantMedium.  A density is held times DensityUnit, neg_inv_density   *)
(* and distances times TScale, and ln of the uniform draw in [0, 1) is a   *)
(* negative whole number or -Inf (the draw 0).                             *)
(***************************************************************************)
DensityUnit == 2
Densities == {-4, -2, -1, 0, 1, 2, 4}
LnDraws == {-Inf, -3, -2, -1}

\* ConstantMedium::new
ConstantMedium_new(boundary, density, phase_function) ==
    IF density = 0 THEN Panicked
    ELSE [kind |-> "constant_medium", boundary |-> boundary,
          neg_inv_density |-> (-(TScale * DensityUnit)) \div density,
          phase_function |-> phase_function]

\* self.neg_inv_density * rng().gen::<f32>().ln()
HitDistance(neg_inv_density, ln) ==
    IF IsFinite(ln) THEN neg_inv_density * ln
    ELSE IF neg_inv_density > 0 THEN ln ELSE -ln

\* rec1.get_t() + 0.0001: the first grid point after the entry
AfterEntry(t) == t + 1

\* impl Hitable for ConstantMedium: hit, for the value ln of the draw's logarithm
ConstantMedium_hit(cm, r, tmin, tmax, ln) ==
    Bind(Hit(cm.boundary, r, -Inf, Inf), LAMBDA rec1 :
        IF rec1 = None THEN None
        ELSE Bind(Hit(cm.boundary, r, AfterEntry(rec1.t), Inf), LAMBDA rec2 :
            IF rec2 = None THEN None
            ELSE LET t1 == IF FLt(rec1.t, tmin) THEN tmin ELSE rec1.t
                     t2 == IF FGt(rec2.t, tmax) THEN tmax ELSE rec2.t
                     t0 == IF t1 < 0 THEN 0 ELSE t1
                     ray_length == Length(r.direction)
                     distance_inside_boundary == ((t2 - t0) * ray_length) \div UnitScale
                     hit_distance == HitDistance(cm.neg_inv_density, ln)
                     t == IF IsFinite(hit_distance)
                          THEN t0 + (hit_distance * UnitScale) \div ray_length
                          ELSE hit_distance
                 IN  IF t1 >= t2 THEN None
                     ELSE IF FGt(hit_distance, distance_inside_boundary) THEN None
                     ELSE HitRecord_new(t, RayPoint(r, t), Vec3(1, 0, 0),
                                        cm.phase_function)))

MediumInit ==
    /\ BvhIdle /\ CastIdle /\ RenderIdle
    /\ gpc = "input"
    /\ rec = None
    /\ shape \in {[kind |-> "medium_args", boundary |-> b, density |-> d] :
                      b \in SphereInputs, d \in Densities}
    /\ ray \in [origin : Origins, direction : Dirs]
    /\ \E range \in {<<0, Inf>>, <<TScale, MaxT * TScale>>} :
           t_min = range[1] /\ t_max = range[2]
    /\ ExactSphere(shape.boundary, ray)

\* ConstantMedium::new(boundary, density, phase_function)
ConstructMedium ==
    /\ gpc = "input"
    /\ shape' = ConstantMedium_new(shape.boundary, shape.density, Isotropic(1))
    /\ gpc' = IF shape.density = 0 THEN "panicked" ELSE "constructed"
    /\ rec' = [density |-> shape.density]
    /\ UNCHANGED <<ray, t_min, t_max>>
    /\ GeomFrame

\* one call of hit; rec keeps the density given, the logarithm drawn and the result
QueryMedium ==
    /\ gpc = "constructed"
    /\ \E ln \in LnDraws :
           rec' = [density |-> rec.density, ln |-> ln,
                   result |-> ConstantMedium_hit(shape, ray, t_min, t_max, ln)]
    /\ gpc' = "ConstantMedium_hit"
    /\ UNCHANGED <<shape, ray, t_min, t_max>>
    /\ GeomFrame

MediumNext == ConstructMedium \/ QueryMedium

MediumSpec == MediumInit /\ [][MediumNext]_vars

(***************************************************************************)
(* BvhNode::new, one call at a time.  calls is the stack of its frames,    *)
(* the innermost last; a frame is at "enter" (nothing done yet), at "left" *)
(* or "right" (inside the recursive call for that half) or at "node" (both *)
(* children known).  axis is the axis the call drew, plus one.  shape      *)
(* holds the build.                                                        *)
(***************************************************************************)
MaxStack == 4      \* the frames the stack has room for

\* f32::partial_cmp: None as soon as one side is NaN
partial_cmp(a, b) ==
    IF IsNaN(a) \/ IsNaN(b) THEN "None"
    ELSE IF a < b THEN "Less" ELSE IF a > b THEN "Greater" ELSE "Equal"

\* a slip: a missing box compares as Greater
comparator_greater_on_none(object1, object2, axis) ==
    LET bbox_1 == bounding_box(object1)
        bbox_2 == bounding_box(object2)
    IN  IF bbox_1 = None \/ bbox_2 = None THEN "Greater"
        ELSE partial_cmp(bbox_1.min[axis], bbox_2.min[axis])

\* the comparator closure of BvhNode::new, the unwrap included: an Ordering,
\* or "panic" when partial_cmp returned None
comparator(object1, object2, axis) ==
    LET bbox_1 == bounding_box(object1)
        bbox_2 == bounding_box(object2)
    IN  IF bbox_1 = None \/ bbox_2 = None THEN "Less"
        ELSE IF partial_cmp(bbox_1.min[axis], bbox_2.min[axis]) = "None" THEN "panic"
        ELSE partial_cmp(bbox_1.min[axis], bbox_2.min[axis])

\* whether a comparison made by objects.sort_by(comparator) panics: the
\* element inserted is compared with those before it, from the right, for as
\* long as it is Less
RECURSIVE InsertPanics(_, _, _)
InsertPanics(sorted, o, axis) ==
    /\ sorted # <<>>
    /\ LET c == comparator(o, sorted[Len(sorted)], axis)
       IN  \/ c = "panic"
           \/ c = "Less" /\ InsertPanics(SubSeq(sorted, 1, Len(sorted) - 1), o, axis)
RECURSIVE sort_by_panics(_, _)
sort_by_panics(objs, axis) ==
    /\ objs # <<>>
    /\ \/ sort_by_panics(SubSeq(objs, 1, Len(objs) - 1), axis)
       \/ InsertPanics(sort_by(SubSeq(objs, 1, Len(objs) - 1), axis), objs[Len(objs)], axis)

\* a primitive without a box, and (where no debug assertion stops its
\* construction) a sphere with a NaN coordinate
Unbounded == Object_new([kind |-> "unbounded"])
NaNSphere ==
    [kind |-> "object",
     volume |-> Sphere_new(Vec3(NaN, 0, 0), 1, Matte),
     bbox |-> Aabb_new(Vec3(NaN, -1, -1), Vec3(NaN, 1, 1))]
BuildPrimitives(b) ==
    SceneObjects \cup {Unbounded} \cup (IF b = "release" THEN {NaNSphere} ELSE {})

CallFrame(objs) ==
    [objects |-> objs, pc |-> "enter", axis |-> 0,
     left |-> None, right |-> None, second_half |-> <<>>]
Top == calls[Len(calls)]
SetTop(f) == [calls EXCEPT ![Len(calls)] = f]

BuildInit ==
    /\ CastIdle /\ RenderIdle
    /\ gpc = "input"
    /\ rec = None /\ scan = None /\ bvh = None
    /\ ray = None /\ t_min = 0 /\ t_max = Inf
    /\ calls = <<>>
    /\ \E b \in Builds :
           /\ shape = [kind |-> "build", build |-> b]
           /\ objects \in ListsOf(BuildPrimitives(b), MaxObjects)

BuildFrame == UNCHANGED <<shape, ray, t_min, t_max, rec, objects, scan, cvars, rvars>>

\* BvhNode::new(objects, time_interval) is called
BuildCall ==
    /\ gpc = "input"
    /\ calls' = <<CallFrame(objects)>>
    /\ gpc' = "new"
    /\ UNCHANGED bvh
    /\ BuildFrame

\* match objects.len(): 1 => one child
BuildLeaf ==
    /\ gpc = "new" /\ Top.pc = "enter" /\ Len(Top.objects) = 1
    /\ \E axis \in 1..3 :
           calls' = SetTop([Top EXCEPT !.pc = "node", !.axis = axis,
                                       !.left = Top.objects[1]])
    /\ UNCHANGED <<gpc, bvh>>
    /\ BuildFrame

\* match objects.len(): 2 => the pair, ordered by the comparator
BuildPair ==
    /\ gpc = "new" /\ Top.pc = "enter" /\ Len(Top.objects) = 2
    /\ \E axis \in 1..3 :
           LET first == Top.objects[1]
               second == Top.objects[2]
               c == comparator(first, second, axis)
           IN  IF c = "panic"
               THEN gpc' = "panicked" /\ UNCHANGED calls
               ELSE /\ calls' = SetTop([Top EXCEPT
                                   !.pc = "node", !.axis = axis,
                                   !.left = IF c = "Less" THEN first ELSE second,
                                   !.right = IF c = "Less" THEN second ELSE first])
                    /\ UNCHANGED gpc
    /\ UNCHANGED bvh
    /\ BuildFrame

\* match objects.len(): n => sort, split at n / 2, and the call for the
\* first half, for which the stack has room
BuildSplit ==
    /\ gpc = "new" /\ Top.pc = "enter" /\ Len(Top.objects) \notin {1, 2}
    /\ Len(calls) < MaxStack
    /\ \E axis \in 1..3 :
           IF sort_by_panics(Top.objects, axis)
           THEN gpc' = "panicked" /\ UNCHANGED calls
           ELSE LET n == Len(Top.objects)
                    sorted == sort_by(Top.objects, axis)
                IN  /\ calls' = Append(SetTop([Top EXCEPT
                                           !.pc = "left", !.axis = axis,
                                           !.second_half = SubSeq(sorted, n \div 2 + 1, n)]),
                                       CallFrame(SubSeq(sorted, 1, n \div 2)))
                    /\ UNCHANGED gpc
    /\ UNCHANGED bvh
    /\ BuildFrame

\* the same, when the stack has no room for another frame
BuildOverflow ==
    /\ gpc = "new" /\ Top.pc = "enter" /\ Len(Top.objects) \notin {1, 2}
    /\ Len(calls) = MaxStack
    /\ \E axis \in 1..3 : ~sort_by_panics(Top.objects, axis)
    /\ gpc' = "overflow"
    /\ UNCHANGED <<calls, bvh>>
    /\ BuildFrame

\* Self { bbox, left, right } is returned: to the caller of the outermost
\* call, or into the frame below, which goes on with its second half
BuildReturn ==
    /\ gpc = "new" /\ Top.pc = "node"
    /\ LET node == [kind |-> "bvh", bbox |-> BvhNode_bbox(Top.left, Top.right),
                    left |-> Top.left, right |-> Top.right]
           rest == SubSeq(calls, 1, Len(calls) - 1)
           below == rest[Len(rest)]
       IN  IF rest = <<>>
           THEN bvh' = node /\ gpc' = "returned" /\ calls' = rest
           ELSE /\ UNCHANGED <<gpc, bvh>>
                /\ calls' =
                       IF below.pc = "left"
                       THEN Append([rest EXCEPT ![Len(rest)] =
                                       [below EXCEPT !.pc = "right", !.left = node]],
                                   CallFrame(below.second_half))
                       ELSE [rest EXCEPT ![Len(rest)] =
                                [below EXCEPT !.pc = "node", !.right = node]]
    /\ BuildFrame

BuildNext ==
    BuildCall \/ BuildLeaf \/ BuildPair \/ BuildSplit \/ BuildOverflow \/ BuildReturn

BuildSpec == BuildInit /\ [][BuildNext]_vars
\* the call runs on one thread, which keeps running
BuildLiveSpec == BuildSpec /\ WF_vars(BuildNext)

(***************************************************************************)
(* Perlin::permutation, one loop iteration at a time.  While the loop      *)
(* runs rec is [perm, end]: the vector, and the end of the range 1..end    *)
(* that the reversed iterator has still to yield.                          *)
(***************************************************************************)
MaxPerm == 5

\* a slip: the second store of the swap is lost
swap_overwrite(perm, a, b) == [perm EXCEPT ![a + 1] = perm[b + 1]]

\* <[usize]>::swap(a, b), on a vector held as a sequence (index + 1)
swap(perm, a, b) == [perm EXCEPT ![a + 1] = perm[b + 1], ![b + 1] = perm[a + 1]]

\* rng.gen_range(0..i)
gen_range(lo, hi) == lo..(hi - 1)

PermutationArgs == {[kind |-> "permutation_args", n |-> n] : n \in 0..MaxPerm}

PerlinInit ==
    /\ BvhIdle /\ CastIdle /\ RenderIdle
    /\ gpc = "input"
    /\ rec = None
    /\ ray = None /\ t_min = 0 /\ t_max = Inf
    /\ shape \in PermutationArgs

\* let mut perm: Vec<usize> = (0..n).collect(); and the iterator (1..n).rev()
PermutationCollect ==
    /\ gpc = "input" /\ shape.kind = "permutation_args"
    /\ rec' = [perm |-> [k \in 1..shape.n |-> k - 1], end |-> shape.n]
    /\ gpc' = "shuffle"
    /\ UNCHANGED <<shape, ray, t_min, t_max>>
    /\ GeomFrame

\* one iteration: i = end - 1; perm.swap(i, rng.gen_range(0..i))
PermutationSwap ==
    /\ gpc = "shuffle" /\ rec.end > 1
    /\ \E j \in gen_range(0, rec.end - 1) :
           rec' = [perm |-> swap(rec.perm, rec.end - 1, j), end |-> rec.end - 1]
    /\ UNCHANGED <<gpc, shape, ray, t_min, t_max>>
    /\ GeomFrame

\* the range is exhausted: perm is returned
PermutationReturn ==
    /\ gpc = "shuffle" /\ rec.end <= 1
    /\ rec' = rec.perm
    /\ gpc' = "permutation"
    /\ UNCHANGED <<shape, ray, t_min, t_max>>
    /\ GeomFrame

PerlinNext == PermutationCollect \/ PermutationSwap \/ PermutationReturn

PerlinSpec == PerlinInit /\ [][PerlinNext]_vars

(***************************************************************************)
(* RayTracer::cast, one step at a time.  frames[k] is the call at depth    *)
(* k - 1; a call that has returned keeps its frame, with its value.        *)
(***************************************************************************)
CastTMin == 1
Pending == -1

\* attenuation * colour
ColorMul(a, c) == (a * c) \div CUnit

Frame(r, depth) ==
    [ray |-> r, depth |-> depth, queried |-> FALSE, material |-> None,
     scattered |-> FALSE, attenuation |-> 0, value |-> Pending]

\* a slip: the depth test lets one more call through
AtLimit_off_by_one(depth) == depth > max_reflections

\* the test cast starts with
AtLimit(depth) == depth >= max_reflections

\* a slip: a ray that hits nothing is black
cast_black_on_miss(r, depth) ==
    IF AtLimit(depth) \/ BvhNode_hit(bvh, r, CastTMin, Inf) = None THEN {0}
    ELSE {CUnit}

\* RayTracer::cast as a function: the set of the colours it can return,
\* one for each sequence of scatter outcomes
RECURSIVE cast(_, _)
cast(r, depth) ==
    IF AtLimit(depth) THEN {0}
    ELSE LET record == BvhNode_hit(bvh, r, CastTMin, Inf)
         IN  IF record = None
             THEN {Background_color(background, Background_t(r))}
             ELSE UNION {IF out = None THEN {0}
                         ELSE {ColorMul(out.attenuation, c) : c \in cast(out.ray, depth + 1)} :
                         out \in Material_scatter(record.material, r, record)}

CastFrameRest == UNCHANGED <<gvars, bvars, background, max_reflections, rvars>>

\* depth >= max_reflections: black, the scene is not asked
CastAtLimit ==
    /\ cpc = "call"
    /\ AtLimit(frames[sp].depth)
    /\ frames' = [frames EXCEPT ![sp].value = 0]
    /\ cpc' = "return"
    /\ UNCHANGED sp
    /\ CastFrameRest

\* the ray hits nothing: the background
CastMiss ==
    /\ cpc = "call"
    /\ ~AtLimit(frames[sp].depth)
    /\ BvhNode_hit(bvh, frames[sp].ray, CastTMin, Inf) = None
    /\ frames' = [frames EXCEPT
           ![sp].queried = TRUE,
           ![sp].value = Background_color(background, Background_t(frames[sp].ray))]
    /\ cpc' = "return"
    /\ UNCHANGED sp
    /\ CastFrameRest

\* the ray hits and the material does not scatter: the final Vec3::zero()
\* (record is cast's local, bound once)
CastAbsorbed ==
    /\ cpc = "call"
    /\ ~AtLimit(frames[sp].depth)
    /\ \E record \in {BvhNode_hit(bvh, frames[sp].ray, CastTMin, Inf)} :
           /\ record # None
           /\ None \in Material_scatter(record.material, frames[sp].ray, record)
           /\ frames' = [frames EXCEPT ![sp].queried = TRUE,
                                       ![sp].material = record.material,
                                       ![sp].value = 0]
    /\ cpc' = "return"
    /\ UNCHANGED sp
    /\ CastFrameRest

\* the ray hits and the material scatters: cast(&scattered, depth + 1)
CastScatter ==
    /\ cpc = "call"
    /\ ~AtLimit(frames[sp].depth)
    /\ \E record \in {BvhNode_hit(bvh, frames[sp].ray, CastTMin, Inf)} :
           /\ record # None
           /\ \E out \in Material_scatter(record.material, frames[sp].ray, record) \ {None} :
                  frames' = Append(
                      [frames EXCEPT ![sp].queried = TRUE,
                                     ![sp].material = record.material,
                                     ![sp].scattered = TRUE,
                                     ![sp].attenuation = out.attenuation],
                      Frame(out.ray, frames[sp].depth + 1))
    /\ sp' = sp + 1
    /\ cpc' = "call"
    /\ CastFrameRest

\* the inner call returns: attenuation * cast(&scattered, depth + 1)
CastReturn ==
    /\ cpc = "return"
    /\ sp > 1
    /\ frames' = [frames EXCEPT
           ![sp - 1].value = ColorMul(frames[sp - 1].attenuation, frames[sp].value)]
    /\ sp' = sp - 1
    /\ UNCHANGED cpc
    /\ CastFrameRest

\* the outermost call returns to its caller
CastDone ==
    /\ cpc = "return"
    /\ sp = 1
    /\ cpc' = "done"
    /\ UNCHANGED <<frames, sp>>
    /\ CastFrameRest

CastScenes ==
    {<<>>,
     <<Object_new(Sphere_new(Vec3(0, 0, 0), 1, Light(2 * CUnit)))>>,
     <<Object_new(Sphere_new(Vec3(0, 0, 0), 1, Lambertian(2))),
       Object_new(Sphere_new(Vec3(3, 0, 0), 1, Light(CUnit)))>>,
     <<Object_new(Sphere_new(Vec3(0, 0, 0), 1, Metal(3))),
       Object_new(Sphere_new(Vec3(0, 3, 0), 1, Lambertian(CUnit)))>>}
Backgrounds == {Background_Color(3), Background_Gradient(CUnit, 0)}
PrimaryRays ==
    [origin : {Vec3(-2, 0, 0), Vec3(0, -2, 0), Vec3(2, 2, 0)},
     direction : {Vec3(1, 0, 0), Vec3(0, 1, 0), Vec3(-1, -1, 0), Vec3(0, 0, -1)}]

CastInit ==
    /\ RenderIdle
    /\ gpc = "cast" /\ shape = None /\ rec = None /\ scan = None
    /\ t_min = CastTMin /\ t_max = Inf
    /\ objects \in CastScenes
    /\ calls = <<>>
    /\ \E rng \in [1..NodeCount(Len(objects)) -> 0..2] : bvh = Scene_bvh(objects, rng)
    /\ background \in Backgrounds
    /\ max_reflections \in 0..MaxDepth
    /\ ray \in PrimaryRays
    /\ frames = <<Frame(ray, 0)>>
    /\ sp = 1
    /\ cpc = "call"

CastNext ==
    \/ CastAtLimit \/ CastMiss \/ CastAbsorbed \/ CastScatter \/ CastReturn \/ CastDone

CastSpec == CastInit /\ [][CastNext]_vars
\* a call of cast runs on one thread, which keeps running until it returns
CastLiveSpec == CastSpec /\ WF_cvars(CastNext)

(***************************************************************************)
(* RayTracer::raytrace: the calling thread spawns NB_THREADS workers, each *)
(* renders the rows of its band and copies every finished row into the     *)
(* image under the mutex; the caller joins them all and returns the image. *)
(***************************************************************************)
NB_THREADS == 10
Threads == 0..(NB_THREADS - 1)
Unlocked == -1

\* a slip: the division done before the multiplication
BandStart_even(i, h) == i * (h \div NB_THREADS)

\* the band of worker i: rows BandStart..BandEnd - 1 (usize division)
BandStart(i, h) == (i * h) \div NB_THREADS
BandEnd(i, h) == ((i + 1) * h) \div NB_THREADS
Band(i, h) == {y \in 0..(h - 1) : BandStart(i, h) <= y /\ y < BandEnd(i, h)}

\* a slip: a lock that never waits
Mutex_always_free(m) == TRUE

\* Mutex::lock returns when no thread holds the mutex
Mutex_free(m) == m = Unlocked

\* a slip: the guard outlives the row
MutexGuard_kept(m) == m

\* the MutexGuard goes out of scope at the end of the body of the loop over
\* y: the mutex is unlocked
MutexGuard_drop(m) == Unlocked

\* thread_rng(): a generator private to the thread, seeded from the system's
\* entropy.  Its stream is a function of the seed; gen::<f32>() is held in
\* halves (0 for 0.0, 1 for 0.5).
Seeds == {0, 7}

\* a slip: one generator for the whole process
thread_rng_global(i) == 0

\* thread_rng() called on thread i: a handle to the generator kept in the
\* thread-local storage of thread i (utils::rng() returns the same handle)
thread_rng(i) == i

\* one draw: the generator's next state and the value drawn
Rng_gen(state) ==
    LET next == (5 * state + 3) % 16
    IN  [state |-> next, value |-> next \div 8]

\* a Camera whose viewport is 2 * w by 2 * h at distance 1, looking down -z
\* from the origin, so that every sampled direction is on the integer grid
Camera_for(w, h) ==
    [origin |-> VZero, lower_left_corner |-> Vec3(-w, -h, -1),
     horizontal |-> Vec3(2 * w, 0, 0), vertical |-> Vec3(0, 2 * h, 0),
     lens_radius |-> 0]

\* Camera::get_ray(s, t) for s = sn / sd and t = tn / td; lens_radius is 0,
\* so the offset is zero
Camera_get_ray(cam, sn, sd, tn, td) ==
    [origin |-> cam.origin,
     direction |->
         [k \in 1..3 |->
             cam.lower_left_corner[k] + (sn * cam.horizontal[k]) \div sd
                 + (tn * cam.vertical[k]) \div td - cam.origin[k]]]

\* gamma_encode: x.powf(1 / 2.2) = x^(5/11), rounded down to the colour
\* grid; tabulated for the colours 0..2 (held times CUnit)
GammaTable ==
    [x \in 0..(2 * CUnit) |->
        CHOOSE y \in 0..(2 * CUnit) :
            /\ Pow(y, 11) <= Pow(x, 5) * Pow(CUnit, 6)
            /\ Pow(x, 5) * Pow(CUnit, 6) < Pow(y + 1, 11)]
gamma_encode(x) == GammaTable[x]

\* f32::clamp
clamp(x, lo, hi) == IF x < lo THEN lo ELSE IF x > hi THEN hi ELSE x

\* Into<Rgb<u8>> for &Vec3: (255. * x.clamp(0., 1.)) as u8
Rgb(c) == (255 * clamp(c, 0, CUnit)) \div CUnit

\* the loop over the samples of pixel (x, y), n samples to go: the pairs
\* <<rng, color>> it can end with
RECURSIVE SamplePixel(_, _, _, _, _)
SamplePixel(rng, x, y, n, color) ==
    IF n = 0 THEN {<<rng, color>>}
    ELSE LET gu == Rng_gen(rng)
             gv == Rng_gen(gu.state)
             r == Camera_get_ray(camera, 2 * x + gu.value, 2 * width,
                                 2 * (height - y - 1) + gv.value, 2 * height)
         IN  UNION {SamplePixel(gv.state, x, y, n - 1, color + c) : c \in cast(r, 0)}

\* the loop over the pixels of row y from x on: the pairs <<rng, line_pixels>>
RECURSIVE SampleLine(_, _, _, _)
SampleLine(rng, y, x, line_pixels) ==
    IF x = width THEN {<<rng, line_pixels>>}
    ELSE UNION {SampleLine(p[1], y, x + 1,
                           [line_pixels EXCEPT ![x + 1] = gamma_encode(p[2] \div samples)]) :
                   p \in SamplePixel(rng, x, y, samples, 0)}

Pixels(w, h) == (0..(w - 1)) \X (0..(h - 1))
Worker(pc, y, x, rng, line_pixels) ==
    [pc |-> pc, y |-> y, x |-> x, rng |-> rng, line_pixels |-> line_pixels]
Unborn == Worker("unborn", 0, 0, 0, <<>>)
Finished == Worker("done", 0, 0, 0, <<>>)

RenderFrame == UNCHANGED <<gvars, bvars, cvars, width, height, samples, camera>>

\* one turn of the spawning loop
Spawn ==
    /\ main.pc = "spawn"
    /\ workers' = [workers EXCEPT ![main.i].pc = "start"]
    /\ main' = IF main.i + 1 < NB_THREADS THEN [pc |-> "spawn", i |-> main.i + 1]
               ELSE [pc |-> "join", i |-> 0]
    /\ UNCHANGED <<mutex, image, writers, acquired, computed>>
    /\ RenderFrame

\* the worker's first statements; with an empty band the closure returns
WorkerStart(i) ==
    /\ workers[i].pc = "start"
    /\ IF BandStart(i, height) < BandEnd(i, height)
       THEN \E seed \in Seeds :
                workers' = [workers EXCEPT ![i] =
                    Worker("sample", BandStart(i, height), 0, seed, [x \in 1..width |-> 0])]
       ELSE workers' = [workers EXCEPT ![i] = Finished]
    /\ UNCHANGED <<main, mutex, image, writers, acquired, computed>>
    /\ RenderFrame

\* the row is sampled into line_pixels
SampleRow(i) ==
    /\ workers[i].pc = "sample"
    /\ \E p \in SampleLine(workers[thread_rng(i)].rng, workers[i].y, 0,
                            workers[i].line_pixels) :
           /\ workers' = [workers EXCEPT ![thread_rng(i)].rng = p[1],
                                         ![i].pc = "lock", ![i].line_pixels = p[2]]
           /\ computed' = [at \in Pixels(width, height) |->
                              IF at[2] = workers[i].y
                              THEN Append(computed[at], p[2][at[1] + 1])
                              ELSE computed[at]]
    /\ UNCHANGED <<main, mutex, image, writers, acquired>>
    /\ RenderFrame

\* image_pixels.lock().unwrap()
Lock(i) ==
    /\ workers[i].pc = "lock"
    /\ Mutex_free(mutex)
    /\ mutex' = i
    /\ workers' = [workers EXCEPT ![i].pc = "write", ![i].x = 0]
    /\ acquired' = [acquired EXCEPT ![i] = Append(@, workers[i].y)]
    /\ UNCHANGED <<main, image, writers, computed>>
    /\ RenderFrame

\* one put_pixel of the copying loop
PutPixel(i) ==
    /\ workers[i].pc = "write"
    /\ workers[i].x < width
    /\ LET at == <<workers[i].x, workers[i].y>>
       IN  /\ image' = [image EXCEPT ![at] = Rgb(workers[i].line_pixels[workers[i].x + 1])]
           /\ writers' = [writers EXCEPT ![at] = Append(@, i)]
    /\ workers' = [workers EXCEPT ![i].x = @ + 1]
    /\ UNCHANGED <<main, mutex, acquired, computed>>
    /\ RenderFrame

\* the end of the row: the guard is dropped, then the next row or the end
\* of the closure
EndRow(i) ==
    /\ workers[i].pc = "write"
    /\ workers[i].x = width
    /\ mutex' = MutexGuard_drop(mutex)
    /\ workers' = [workers EXCEPT ![i] =
           IF workers[i].y + 1 < BandEnd(i, height)
           THEN [@ EXCEPT !.pc = "sample", !.y = @ + 1, !.x = 0]
           ELSE Finished]
    /\ UNCHANGED <<main, image, writers, acquired, computed>>
    /\ RenderFrame

\* a slip: join returns as soon as the thread has been started
Thread_finished_early(w) == w.pc # "unborn"

\* JoinHandle::join returns once the thread's closure has returned or
\* panicked (the Err of a panicked thread is dropped by `let _ =`)
Thread_finished(w) == w.pc \in {"done", "panicked"}

\* one turn of the joining loop
Join ==
    /\ main.pc = "join"
    /\ Thread_finished(workers[main.i])
    /\ main' = IF main.i + 1 < NB_THREADS THEN [pc |-> "join", i |-> main.i + 1]
               ELSE [pc |-> "returned", i |-> 0]
    /\ UNCHANGED <<workers, mutex, image, writers, acquired, computed>>
    /\ RenderFrame

RenderInit ==
    /\ gpc = "render" /\ shape = None /\ rec = None /\ scan = None
    /\ ray = None /\ t_min = CastTMin /\ t_max = Inf
    /\ objects = <<>>
    /\ calls = <<>>
    /\ bvh = Scene_bvh(objects, <<>>)
    /\ background \in Backgrounds
    /\ max_reflections \in {0, MaxDepth}
    /\ frames = <<>> /\ sp = 0 /\ cpc = "idle"
    /\ width \in 0..MaxWidth
    /\ height \in 0..MaxHeight
    /\ samples \in {1, MaxSamples}
    \* every setting for the images of one row, one setting for the others
    /\ \/ height = 1
       \/ /\ width = MaxWidth /\ samples = MaxSamples
          /\ background.kind = "gradient" /\ max_reflections = MaxDepth
    /\ camera = Camera_for(width, height)
    /\ main = [pc |-> "spawn", i |-> 0]
    /\ workers = [i \in Threads |-> Unborn]
    /\ mutex = Unlocked
    /\ image = [at \in Pixels(width, height) |-> 0]
    /\ writers = [at \in Pixels(width, height) |-> <<>>]
    /\ acquired = [i \in Threads |-> <<>>]
    /\ computed = [at \in Pixels(width, height) |-> <<>>]

RenderNext ==
    \/ Spawn
    \/ Join
    \/ \E i \in Threads :
           WorkerStart(i) \/ SampleRow(i) \/ Lock(i) \/ PutPixel(i) \/ EndRow(i)

RenderSpec == RenderInit /\ [][RenderNext]_vars

(***************************************************************************)
(* A render of a taller image, in which a band has two rows.  The state    *)
(* space of ten workers at once is out of reach, so the render is taken up *)
(* at a state it passes through: the caller has spawned the workers before *)
(* FirstLeft, each of which has run to completion before the next spawn.   *)
(***************************************************************************)
\* the least height at which a band has two rows
TallHeight == NB_THREADS + 1
FirstLeft == NB_THREADS - 2
DoneRows == 0..(BandStart(FirstLeft, TallHeight) - 1)

\* the worker whose band holds row y
BandOf(y, h) == CHOOSE i \in Threads : y \in Band(i, h)

\* the row a worker seeded with seed has sampled for y (the scene is empty,
\* so the seed settles the row)
LineOf(seed, y) ==
    (CHOOSE p \in SampleLine(seed, y, 0, [x \in 1..width |-> 0]) : TRUE)[2]

TallInit ==
    /\ gpc = "render" /\ shape = None /\ rec = None /\ scan = None
    /\ ray = None /\ t_min = CastTMin /\ t_max = Inf
    /\ objects = <<>>
    /\ calls = <<>>
    /\ bvh = Scene_bvh(objects, <<>>)
    /\ background \in Backgrounds
    /\ max_reflections = MaxDepth
    /\ frames = <<>> /\ sp = 0 /\ cpc = "idle"
    /\ width \in 1..MaxWidth
    /\ height = TallHeight
    /\ samples = 1
    /\ camera = Camera_for(width, height)
    /\ main = [pc |-> "spawn", i |-> FirstLeft]
    /\ workers = [i \in Threads |-> IF i < FirstLeft THEN Finished ELSE Unborn]
    /\ mutex = Unlocked
    /\ \E seeds \in [DoneRows -> Seeds] :
           /\ computed = [at \in Pixels(width, height) |->
                              IF at[2] \in DoneRows
                              THEN <<LineOf(seeds[at[2]], at[2])[at[1] + 1]>>
                              ELSE <<>>]
           /\ image = [at \in Pixels(width, height) |->
                           IF at[2] \in DoneRows THEN Rgb(computed[at][1]) ELSE 0]
    /\ writers = [at \in Pixels(width, height) |->
                     IF at[2] \in DoneRows THEN <<BandOf(at[2], height)>> ELSE <<>>]
    /\ acquired = [i \in Threads |->
                      IF i < FirstLeft
                      THEN [k \in 1..(BandEnd(i, height) - BandStart(i, height)) |->
                               BandStart(i, height) + k - 1]
                      ELSE <<>>]

TallSpec == TallInit /\ [][RenderNext]_vars

\* fair scheduling: a thread that can take its next step does so in the
\* end (a worker blocked in Mutex::lock can take none until the mutex is free)
WorkerNext(i) == WorkerStart(i) \/ SampleRow(i) \/ Lock(i) \/ PutPixel(i) \/ EndRow(i)
Fairness == WF_vars(Spawn \/ Join) /\ \A i \in Threads : WF_vars(WorkerNext(i))
\* the fair render of the tall image, one pixel wide
TallLiveInit == TallInit /\ width = 1
TallLiveSpec == TallLiveInit /\ [][RenderNext]_vars /\ Fairness

(***************************************************************************)
(* A render in which the sampling of a row can panic (cast, get_ray and    *)
(* the objects they call hold assertions and unwraps).  The unwinding      *)
(* thread drops what it holds; a MutexGuard dropped while panicking        *)
(* poisons the mutex, and lock() on a poisoned mutex returns an Err, which *)
(* unwrap() turns into a panic.                                            *)
(***************************************************************************)
Poisoned == -2
Unwound == Worker("panicked", 0, 0, 0, <<>>)

\* a slip: a panic inside the copying loop as well
PanicSites_put_pixel(m) ==
    IF m = Poisoned THEN {"sample", "lock", "write"} ELSE {"sample", "write"}

\* the places of the closure at which it can panic with the mutex in state m
PanicSites(m) == IF m = Poisoned THEN {"sample", "lock"} ELSE {"sample"}

\* worker i panics and its thread ends
Unwind(i) ==
    /\ workers[i].pc \in PanicSites(mutex)
    /\ workers' = [workers EXCEPT ![i] = Unwound]
    /\ mutex' = IF mutex = i THEN Poisoned ELSE mutex
    /\ UNCHANGED <<main, image, writers, acquired, computed>>
    /\ RenderFrame

PanicNext == RenderNext \/ \E i \in Threads : Unwind(i)

\* the threads are scheduled fairly; no panic is bound to happen
PanicSpec == TallLiveInit /\ [][PanicNext]_vars /\ Fairness

(***************************************************************************)
(* Claims                                                                  *)
(***************************************************************************)

\* the two roots of the ray-sphere quadratic, times TScale
SmallRoot(s, r) ==
    LET oc == VSub(r.origin, s.center)
        hb == Dot(oc, r.direction)
        d4 == hb * hb - Square(r.direction) * (Square(oc) - s.radius * s.radius)
    IN  (TScale * (-hb - ISqrt(d4))) \div Square(r.direction)
LargeRoot(s, r) ==
    LET oc == VSub(r.origin, s.center)
        hb == Dot(oc, r.direction)
        d4 == hb * hb - Square(r.direction) * (Square(oc) - s.radius * s.radius)
    IN  (TScale * (-hb + ISqrt(d4))) \div Square(r.direction)
Discriminant(s, r) ==
    LET oc == VSub(r.origin, s.center)
        hb == Dot(oc, r.direction)
    IN  hb * hb - Square(r.direction) * (Square(oc) - s.radius * s.radius)
InOpenRange(t) == t_min < t /\ t < t_max

\* C8: Sphere::hit returns the smaller root of the quadratic when it lies in
\* (t_min, t_max), otherwise the larger root when that one does, otherwise
\* no hit; a negative discriminant gives no hit; every returned t satisfies
\* t_min < t < t_max.
C8_SphereHitOpenRange ==
    gpc = "Sphere_hit" =>
        /\ Discriminant(shape, ray) < 0 => rec = None
        /\ Discriminant(shape, ray) >= 0 =>
               IF InOpenRange(SmallRoot(shape, ray))
               THEN rec # None /\ rec.t = SmallRoot(shape, ray)
               ELSE IF InOpenRange(LargeRoot(shape, ray))
                    THEN rec # None /\ rec.t = LargeRoot(shape, ray)
                    ELSE rec = None
        /\ rec # None => InOpenRange(rec.t)

\* C9 as stated: after set_face_normal the normal satisfies
\* dot(ray.direction, normal) < 0, it is the prior normal or its negation,
\* and front_face is true exactly when the prior normal already pointed
\* against the ray and was kept.
C9_NormalStrictlyAgainstRay ==
    gpc = "set_face_normal" =>
        /\ Dot(ray.direction, rec.normal) < 0
        /\ rec.normal \in {shape.record.normal, VNeg(shape.record.normal)}
        /\ rec.front_face <=> (Dot(ray.direction, shape.record.normal) < 0)
        /\ rec.front_face => rec.normal = shape.record.normal

\* C9 (amended): after set_face_normal, dot(ray.direction, normal) <= 0, and
\* < 0 unless the prior normal is perpendicular to the ray; the normal is the
\* prior normal (front_face true, when the prior normal already pointed
\* against the ray) or its negation (front_face false).
C9_NormalAgainstRay ==
    gpc = "set_face_normal" =>
        /\ Dot(ray.direction, rec.normal) <= 0
        /\ Dot(ray.direction, shape.record.normal) # 0 => Dot(ray.direction, rec.normal) < 0
        /\ rec.front_face <=> (Dot(ray.direction, shape.record.normal) < 0)
        /\ rec.front_face => rec.normal = shape.record.normal
        /\ ~rec.front_face => rec.normal = VNeg(shape.record.normal)
        /\ rec.t = shape.record.t /\ rec.hit_point = shape.record.hit_point

\* a flip occurred: the prior normal pointed along the ray
C9_Witness ==
    /\ gpc = "set_face_normal"
    /\ Dot(ray.direction, shape.record.normal) > 0
    /\ ~rec.front_face
    /\ rec.normal # shape.record.normal

\* a box with one rectangle per face
AaBox_new_six_faces(min, max, material) ==
    [kind |-> "aabox", min |-> min, max |-> max,
     faces |-> << XyRect_new(<<min[1], max[1]>>, <<min[2], max[2]>>, min[3], material),
                  XyRect_new(<<min[1], max[1]>>, <<min[2], max[2]>>, max[3], material),
                  XzRect_new(<<min[1], max[1]>>, <<min[3], max[3]>>, min[2], material),
                  XzRect_new(<<min[1], max[1]>>, <<min[3], max[3]>>, max[2], material),
                  YzRect_new(<<min[2], max[2]>>, <<min[3], max[3]>>, min[1], material),
                  YzRect_new(<<min[2], max[2]>>, <<min[3], max[3]>>, max[1], material) >>]

PlaneOf(q) == <<q.kind, q.k>>

\* C10: AaBox::new holds one rectangle per face (x = min.x, x = max.x,
\* y = min.y, y = max.y, z = min.z, z = max.z) and AaBox::hit returns the
\* closest in-range intersection among the six: a ray is reported at the
\* first of the six faces it crosses.
C10_HitAtFirstFaceCrossed ==
    gpc = "AaBox_hit" =>
        LET six == AaBox_new_six_faces(shape.min, shape.max, Matte).faces
            first == Vec_hit(six, ray, t_min, t_max)
        IN  /\ {PlaneOf(shape.faces[i]) : i \in 1..6} = {PlaneOf(six[i]) : i \in 1..6}
            /\ (rec = None) <=> (first = None)
            /\ rec # None => rec.t = first.t

\* the calls of cast that have returned
Returned(k) == k \in 1..Len(frames) /\ frames[k].value # Pending

\* C5: for depth < max_reflections and a ray that hits an object, cast
\* returns emitted + attenuation * cast(scattered, depth + 1) when the
\* material scatters and the emitted colour alone when it does not; a ray
\* that hits a Light returns the light's colour.
C5_CastAddsEmitted ==
    \A k \in 1..Len(frames) :
        (Returned(k) /\ frames[k].material # None) =>
            IF frames[k].scattered
            THEN frames[k].value = Material_emitted(frames[k].material)
                     + ColorMul(frames[k].attenuation, frames[k + 1].value)
            ELSE frames[k].value = Material_emitted(frames[k].material)

\* what the code computes on a hit: the emitted colour never enters
C5_CastWithoutEmitted ==
    \A k \in 1..Len(frames) :
        (Returned(k) /\ frames[k].material # None) =>
            IF frames[k].scattered
            THEN frames[k].value = ColorMul(frames[k].attenuation, frames[k + 1].value)
            ELSE frames[k].value = 0

C6_DepthInvariant ==
    /\ Len(frames) <= max_reflections + 1
    /\ \A k \in 1..Len(frames) :
        /\ frames[k].depth = k - 1
        /\ frames[k].depth <= max_reflections
        /\ frames[k].queried => frames[k].depth < max_reflections
        /\ (Returned(k) /\ frames[k].depth >= max_reflections) =>
               (frames[k].value = 0 /\ ~frames[k].queried)
    /\ cpc = "done" => frames[1].value \in cast(ray, 0)

\* C6: cast returns black without asking the scene when depth >=
\* max_reflections, every recursive call is one deeper than its caller, so
\* at most max_reflections calls ask the scene and cast(ray, 0) returns,
\* whatever the scene and the scatter outcomes.
C6_CastBoundedAndTerminates == []C6_DepthInvariant /\ <>(cpc = "done")

\* a path as deep as allowed: every call scattered, the last one hit the limit
C6_Witness ==
    /\ cpc = "done"
    /\ max_reflections >= 2
    /\ Len(frames) = max_reflections + 1
    /\ frames[Len(frames)].value = 0
    /\ ~frames[Len(frames)].queried
    /\ \A k \in 1..max_reflections : frames[k].scattered

C3_WritesUnderMutex ==
    /\ mutex \in Threads \cup {Unlocked}
    /\ \A i \in Threads : workers[i].pc = "write" <=> mutex = i
    /\ \A i, j \in Threads :
           (workers[i].pc = "write" /\ workers[j].pc = "write") => i = j

\* a worker is in the middle of its row while another one waits for the mutex
C3_Witness ==
    \E i, j \in Threads :
        /\ i # j
        /\ workers[i].pc = "write" /\ workers[i].x = 1 /\ mutex = i
        /\ workers[j].pc = "lock"

\* the bands of a height h: contiguous from 0 to h, so disjoint and covering
BandsPartition(h) ==
    /\ BandStart(0, h) = 0
    /\ BandEnd(NB_THREADS - 1, h) = h
    /\ \A i \in Threads : BandStart(i, h) <= BandEnd(i, h)
    /\ \A i \in Threads : i + 1 < NB_THREADS => BandEnd(i, h) = BandStart(i + 1, h)
    /\ \A y \in 0..(h - 1) : Cardinality({i \in Threads : y \in Band(i, h)}) = 1
AllBandsPartition == \A h \in 0..MaxBandHeight : BandsPartition(h)

\* C4: for every height and the 10 workers, the row ranges
\* [i * height / 10, (i + 1) * height / 10) are contiguous, pairwise disjoint
\* and cover 0..height, heights that are no multiple of 10 or are below 10
\* included; a worker only ever works on a row of its band.
C4_BandsPartitionRows ==
    /\ AllBandsPartition
    /\ BandsPartition(height)
    /\ \A i \in Threads :
           workers[i].pc \in {"sample", "lock", "write"} => workers[i].y \in Band(i, height)

\* a height below the number of workers: a worker with an empty band has
\* ended while the owner of the last row is copying it
C4_Witness ==
    /\ height = 2
    /\ \E i, j \in Threads :
           /\ Band(i, height) = {} /\ workers[i].pc = "done"
           /\ workers[j].pc = "write" /\ workers[j].y = height - 1

\* the colours pixel at can get when every sample returns the background:
\* one for each choice of the jitters of its samples
RECURSIVE SumOver(_, _)
SumOver(f, n) == IF n = 0 THEN 0 ELSE f[n] + SumOver(f, n - 1)
BackgroundOfSample(at, jitter) ==
    Background_color(background,
        Background_t(Camera_get_ray(camera, 2 * at[1] + jitter[1], 2 * width,
                                    2 * (height - at[2] - 1) + jitter[2], 2 * height)))
PixelBackgrounds(at) ==
    {Rgb(gamma_encode(SumOver([k \in 1..samples |-> BackgroundOfSample(at, jitters[k])],
                              samples) \div samples)) :
        jitters \in [1..samples -> {0, 1} \X {0, 1}]}

\* C7 as stated: with no primitive in the scene every pixel of the rendered
\* image is the background evaluated for it, for every samples >= 1 and
\* every max_reflections that RayTracer::new accepts.
C7_EmptySceneIsBackground ==
    (main.pc = "returned" /\ objects = <<>> /\ samples >= 1) =>
        \A at \in Pixels(width, height) : image[at] \in PixelBackgrounds(at)

\* C7, amended: with no primitive in the scene, samples >= 1 and
\* max_reflections >= 1, every primary ray returns Background::color(t) and
\* every pixel of the rendered image is the background evaluated for it.
C7_EmptySceneIsBackgroundFromDepthOne ==
    (main.pc = "returned" /\ objects = <<>> /\ samples >= 1 /\ max_reflections >= 1) =>
        \A at \in Pixels(width, height) : image[at] \in PixelBackgrounds(at)

\* a rendered gradient: two rows of different colours
C7_Witness ==
    /\ main.pc = "returned" /\ objects = <<>> /\ max_reflections >= 1
    /\ background.kind = "gradient"
    /\ height = 2 /\ width = 2 /\ samples = 2
    /\ image[<<0, 0>>] # image[<<0, 1>>]
    /\ \A at \in Pixels(width, height) : image[at] \in PixelBackgrounds(at)

\* the least and the greatest of two numbers, by their defining property
LeastOf(S) == CHOOSE m \in S : \A n \in S : m <= n
GreatestOf(S) == CHOOSE m \in S : \A n \in S : m >= n

\* C11: Aabb::surrounding_box(a, b) is the box whose min is the
\* component-wise minimum of a.min and b.min and whose max is the
\* component-wise maximum of a.max and b.max; it is commutative and
\* surrounding_box(a, a) = a, for disjoint, overlapping and nested boxes.
C11_SurroundingBoxIsUnion ==
    gpc = "surrounding_box" =>
        /\ \A k \in 1..3 :
               /\ rec.ab.min[k] = LeastOf({shape.bbox0.min[k], shape.bbox1.min[k]})
               /\ rec.ab.max[k] = GreatestOf({shape.bbox0.max[k], shape.bbox1.max[k]})
        /\ rec.ab = rec.ba
        /\ rec.aa = shape.bbox0

\* two boxes apart on the x axis: the result is neither of them
C11_Witness ==
    /\ gpc = "surrounding_box"
    /\ shape.bbox0.max[1] < shape.bbox1.min[1]
    /\ rec.ab \notin {shape.bbox0, shape.bbox1}
    /\ rec.ab = Aabb_new(shape.bbox0.min, shape.bbox1.max)

\* C12: for every fuzziness passed to Metal::new the stored fuzziness lies
\* in [0, 1]: a value above 1 is stored as 1, a value below 0 as 0.
C12_FuzzinessInUnitRange ==
    gpc = "Metal_new" =>
        /\ FLe(0, rec.fuzziness) /\ FLe(rec.fuzziness, CUnit)
        /\ FGt(shape.fuzziness, CUnit) => rec.fuzziness = CUnit
        /\ FLt(shape.fuzziness, 0) => rec.fuzziness = 0

\* what Metal::new stores: the argument, capped at 1 from above only
C12_FuzzinessCappedAboveOnly ==
    gpc = "Metal_new" =>
        /\ rec.albedo = shape.albedo
        /\ rec.fuzziness = (IF FGt(shape.fuzziness, CUnit) THEN CUnit ELSE shape.fuzziness)
        /\ FLt(shape.fuzziness, 0) => rec.fuzziness = shape.fuzziness

\* C13: Dielectric::scatter always returns a scattered ray (never none, and
\* the call returns) whose attenuation is exactly (1, 1, 1), for every
\* incoming ray, either face of the record and every number drawn, whether
\* the ray is reflected or refracted.
C13_DielectricScattersWhite ==
    gpc = "Dielectric_scatter" =>
        /\ rec # None /\ rec # Panicked
        /\ rec.attenuation = CUnit
        /\ rec.ray.origin = GridPoint(shape.record.hit_point)
        /\ rec.ray.direction \in
               {reflect(unit(shape.ray.direction), shape.record.normal),
                refract(unit(shape.ray.direction), shape.record.normal,
                        IF shape.record.front_face
                        THEN (UnitScale * UnitScale) \div shape.material.refractive_index
                        ELSE shape.material.refractive_index)}

\* a ray that entered through the front face was refracted: it goes on to
\* the other side of the surface, bent
C13_Witness ==
    /\ gpc = "Dielectric_scatter"
    /\ shape.record.front_face
    /\ shape.material.refractive_index > UnitScale
    /\ Dot(shape.ray.direction, shape.record.normal) < 0
    /\ Square(shape.ray.direction) = 2
    /\ rec.attenuation = CUnit
    /\ Dot(rec.ray.direction, shape.record.normal) < 0
    /\ rec.ray.direction # unit(shape.ray.direction)

\* a ray inside the glass that cannot leave it: total internal reflection
C13_WitnessReflected ==
    /\ gpc = "Dielectric_scatter"
    /\ ~shape.record.front_face
    /\ rec.attenuation = CUnit
    /\ rec.ray.direction = reflect(unit(shape.ray.direction), shape.record.normal)
    /\ rec.ray.direction # refract(unit(shape.ray.direction), shape.record.normal,
                                   shape.material.refractive_index)

\* the rays a call has produced: the result of Ray::new, or the scattered
\* ray of a scatter
ProducedRays ==
    IF rec \in {None, Panicked} THEN {}
    ELSE IF gpc = "Ray_new" THEN {rec}
    ELSE IF gpc \in {"Dielectric_scatter", "Isotropic_scatter"} THEN {rec.ray}
    ELSE {}
\* the direction handed to Ray::new by the call
DirectionGiven ==
    IF gpc = "Ray_new" THEN shape.direction
    ELSE IF gpc = "Isotropic_scatter" THEN shape.p
    ELSE Vec3(1, 0, 0)

\* C14: no Ray with a zero direction is ever produced: Ray::new aborts when
\* direction is (0, 0, 0), for every caller, the scattered rays built from
\* random vectors included.
C14_NoZeroDirectionRay ==
    /\ \A r \in ProducedRays : ~is_zero(r.direction)
    /\ (gpc \in {"Ray_new", "Isotropic_scatter"} /\ is_zero(DirectionGiven)) => rec = Panicked

\* what Ray::new does: it aborts on a zero direction in a debug build only;
\* in a release build the ray is built with the direction it is given
C14_ZeroDirectionAbortsInDebugOnly ==
    (gpc \in {"Ray_new", "Isotropic_scatter"}) =>
        /\ (rec = Panicked) <=> (shape.build = "debug" /\ is_zero(DirectionGiven))
        /\ rec # Panicked => \A r \in ProducedRays : r.direction = DirectionGiven

\* the nodes and the primitives of the tree under h
RECURSIVE NodesOf(_)
NodesOf(h) ==
    IF h = None \/ h.kind # "bvh" THEN {}
    ELSE {h} \cup NodesOf(h.left) \cup NodesOf(h.right)
RECURSIVE PrimitivesOf(_)
PrimitivesOf(h) ==
    IF h = None THEN {}
    ELSE IF h.kind # "bvh" THEN {h}
    ELSE PrimitivesOf(h.left) \cup PrimitivesOf(h.right)
Encloses(outer, inner) ==
    \A k \in 1..3 : outer.min[k] <= inner.min[k] /\ inner.max[k] <= outer.max[k]

\* C15: every node built by BvhNode::new has the box of its single child
\* (one primitive) or Aabb::surrounding_box of its two children's boxes, so
\* the root's box encloses the box of every primitive of the tree.
C15_NodeBoxesSurroundChildren ==
    (gpc \in {"built", "hit"} /\ objects # <<>>) =>
        /\ \A n \in NodesOf(bvh) :
               /\ n.left # None
               /\ n.bbox = IF n.right = None THEN bounding_box(n.left)
                           ELSE surrounding_box(bounding_box(n.left), bounding_box(n.right))
        /\ PrimitivesOf(bvh) = {objects[i] : i \in 1..Len(objects)}
        /\ \A o \in PrimitivesOf(bvh) : Encloses(bvh.bbox, bounding_box(o))

\* a tree of three primitives: an inner node under the root, and a root box
\* that is the box of none of the primitives
C15_Witness ==
    /\ gpc = "built"
    /\ Len(objects) = 3
    /\ Cardinality(NodesOf(bvh)) = 3
    /\ Cardinality(PrimitivesOf(bvh)) = 3
    /\ \A o \in PrimitivesOf(bvh) : bvh.bbox # bounding_box(o)

\* C16: for every wrapped volume and every time interval,
\* Object::bounding_box(interval) is the box the volume's own
\* bounding_box(interval) returns, a MovingSphere included.
C16_ObjectBoxIsVolumeBox ==
    gpc = "Object_bounding_box" => rec.object = rec.volume

\* what Object::bounding_box returns: the volume's box for the interval
\* (0., 0.1), whatever interval is asked
C16_ObjectBoxIsBoxOfFirstTenth ==
    gpc = "Object_bounding_box" =>
        /\ rec.object = Hitable_bounding_box(shape.volume, ObjectInterval)
        /\ shape.volume.kind = "sphere" => rec.object = rec.volume

C18_PermutationIsPermutation ==
    gpc = "permutation" =>
        /\ Len(rec) = shape.n
        /\ \A v \in 0..(shape.n - 1) :
               Cardinality({k \in 1..Len(rec) : rec[k] = v}) = 1

\* a shuffle of four values has returned with every value moved
C18_Witness ==
    /\ gpc = "permutation" /\ shape.n = 4
    /\ \A k \in 1..4 : rec[k] # k - 1

\* the mutex is taken by worker i in this step
Acquires(i) == mutex # i /\ mutex' = i
\* worker i samples (casts the rays of) a row in this step
Samples(i) == workers[i].pc = "sample" /\ workers'[i].pc = "lock"

\* C19: each worker takes the image mutex exactly once for each row of its
\* band, in row order, only when the row has been sampled, and has released
\* it before it samples the next row; no worker holds the mutex while it
\* casts rays.
C19_OneAcquisitionPerRow ==
    /\ [](\A i \in Threads :
              LET first == BandStart(i, height)
                  rows == acquired[i]
              IN  /\ \A k \in 1..Len(rows) : rows[k] = first + k - 1
                  /\ workers[i].pc \in {"unborn", "start"} => rows = <<>> /\ mutex # i
                  /\ workers[i].pc \in {"sample", "lock"} =>
                         Len(rows) = workers[i].y - first /\ mutex # i
                  /\ workers[i].pc = "write" =>
                         Len(rows) = workers[i].y - first + 1 /\ mutex = i
                  /\ workers[i].pc = "done" =>
                         Len(rows) = BandEnd(i, height) - first /\ mutex # i)
    /\ [][\A i \in Threads :
              /\ Acquires(i) =>
                     /\ workers[i].pc = "lock"
                     /\ acquired'[i] = Append(acquired[i], workers[i].y)
              /\ acquired'[i] # acquired[i] => Acquires(i)
              /\ Samples(i) => mutex # i /\ mutex' # i]_vars

\* the last worker has written its first row, released the mutex, sampled
\* its second row while the worker before it holds the mutex, and waits
C19_Witness ==
    /\ height = TallHeight
    /\ workers[NB_THREADS - 1].pc = "lock"
    /\ workers[NB_THREADS - 1].y = BandStart(NB_THREADS - 1, height) + 1
    /\ acquired[NB_THREADS - 1] = <<BandStart(NB_THREADS - 1, height)>>
    /\ mutex = NB_THREADS - 2

BandDone(i) ==
    /\ workers[i].pc = "done"
    /\ Len(acquired[i]) = BandEnd(i, height) - BandStart(i, height)

C21_Witness ==
    /\ height = 2 /\ width = 2
    /\ workers[NB_THREADS - 1].pc = "done"
    /\ writers[<<1, 1>>] = <<NB_THREADS - 1>>
    /\ \E i \in Threads : workers[i].pc = "lock" /\ workers[i].y = 0

RECURSIVE LeavesOf(_)
LeavesOf(h) ==
    IF h = None THEN <<>>
    ELSE IF h.kind # "bvh" THEN <<h>>
    ELSE LeavesOf(h.left) \o LeavesOf(h.right)
Count(o, list) == Cardinality({k \in 1..Len(list) : list[k] = o})
SameBag(l1, l2) ==
    /\ Len(l1) = Len(l2)
    /\ \A k \in 1..Len(l1) : Count(l1[k], l1) = Count(l1[k], l2)
\* list is in order on axis, as far as its boxes can be compared
OrderedOn(list, axis) ==
    \A i, j \in 1..Len(list) :
        (/\ i < j
         /\ bounding_box(list[i]) # None /\ bounding_box(list[j]) # None
         /\ ~IsNaN(bounding_box(list[i]).min[axis])
         /\ ~IsNaN(bounding_box(list[j]).min[axis]))
            => bounding_box(list[i]).min[axis] <= bounding_box(list[j]).min[axis]
\* this step is the split made by the innermost call
Splits == calls # <<>> /\ Len(calls') = Len(calls) + 1

\* C22: the tree BvhNode::new returns holds every primitive of the list in
\* exactly one leaf; a call with n >= 3 primitives hands the first n / 2 of
\* the list sorted on its axis to the call for the left subtree and keeps
\* the other n - n / 2 for the right one, neither half empty, and at every
\* node of three or more primitives the left subtree has half of them
\* (rounded down).
C22_EveryPrimitiveInOneLeaf ==
    /\ [](gpc = "returned" =>
              /\ SameBag(LeavesOf(bvh), objects)
              /\ \A node \in NodesOf(bvh) :
                     LET n == Len(LeavesOf(node))
                     IN  n >= 3 =>
                             /\ Len(LeavesOf(node.left)) = n \div 2
                             /\ Len(LeavesOf(node.right)) = n - n \div 2)
    /\ [][(Splits /\ Len(Top.objects) >= 3) =>
              LET n == Len(Top.objects)
                  below == calls'[Len(calls)]
                  first_half == calls'[Len(calls')].objects
              IN  /\ SameBag(first_half \o below.second_half, Top.objects)
                  /\ OrderedOn(first_half \o below.second_half, below.axis)
                  /\ Len(first_half) = n \div 2 /\ first_half # <<>>
                  /\ Len(below.second_half) = n - n \div 2
                  /\ below.second_half # <<>>]_vars

\* a tree of three different bounded primitives, given out of order on x,
\* has been returned
C22_Witness ==
    /\ gpc = "returned"
    /\ Len(objects) = 3
    /\ Cardinality({objects[k] : k \in 1..3}) = 3
    /\ \A k \in 1..3 : bounding_box(objects[k]) # None
    /\ bounding_box(objects[1]).min[1] > bounding_box(objects[2]).min[1]
    /\ LeavesOf(bvh.left) # <<objects[1]>>

\* C23: BvhNode::new(objects, time_interval) terminates for every finite
\* list of primitives, the empty list included.
C23_BuildTerminates == <>(gpc \in {"returned", "panicked"})

\* what the code does: a call with a non-empty list ends, and the only call
\* that runs out of stack is the one with the empty list, every frame of
\* which holds the empty list again
C23_NonEmptyBuildTerminates ==
    /\ (objects # <<>>) => <>(gpc \in {"returned", "panicked"})
    /\ [](gpc = "overflow" =>
              /\ objects = <<>>
              /\ \A k \in 1..Len(calls) : calls[k].objects = <<>>)

\* C24: the comparator of BvhNode::new returns Less when one of the two
\* primitives has no bounding box, and BvhNode::new completes without a
\* panic for every non-empty list of primitives, boxed or not.
C24_BuildNeverPanics ==
    /\ \A o1, o2 \in BuildPrimitives(shape.build) : \A axis \in 1..3 :
           (bounding_box(o1) = None \/ bounding_box(o2) = None)
               => comparator(o1, o2, axis) = "Less"
    /\ objects # <<>> => gpc # "panicked"

\* what the code does: Less for a missing box, and a panic only where a box
\* with a NaN coordinate (which no debug build lets exist) is compared with
\* another box
C24_PanicsOnlyOnNaN ==
    /\ \A o1, o2 \in BuildPrimitives(shape.build) : \A axis \in 1..3 :
           (bounding_box(o1) = None \/ bounding_box(o2) = None)
               => comparator(o1, o2, axis) = "Less"
    /\ gpc = "panicked" =>
           /\ shape.build = "release"
           /\ Len(objects) >= 2
           /\ \E j, k \in 1..Len(objects) :
                  /\ j # k
                  /\ objects[j] = NaNSphere
                  /\ bounding_box(objects[k]) # None

\* the parameters at which the ray is within the box on axis: the closed
\* interval <<lo, hi>>, times TScale (every t, or none, for a ray parallel
\* to the slab)
SlabInterval(b, r, axis) ==
    LET d == r.direction[axis]
        o == r.origin[axis]
    IN  IF d = 0
        THEN (IF b.min[axis] <= o /\ o <= b.max[axis] THEN <<-Inf, Inf>> ELSE <<Inf, -Inf>>)
        ELSE IF d > 0
             THEN <<(TScale * (b.min[axis] - o)) \div d, (TScale * (b.max[axis] - o)) \div d>>
             ELSE <<(TScale * (b.max[axis] - o)) \div d, (TScale * (b.min[axis] - o)) \div d>>
\* some t of <<lo, hi>> is strictly between tmin and tmax
Meets(lo, hi, tmin, tmax) == lo <= hi /\ lo < tmax /\ tmin < hi /\ tmin < tmax
\* the ray is inside the box at some t with tmin < t < tmax
Crosses(b, r, tmin, tmax) ==
    Meets(GreatestOf({SlabInterval(b, r, k)[1] : k \in 1..3}),
          LeastOf({SlabInterval(b, r, k)[2] : k \in 1..3}), tmin, tmax)

\* C25: Aabb::hit returns true exactly when the ray is within the box's x, y
\* and z extents at one and the same t with t_min < t < t_max.
C25_AabbHitIffCrossing ==
    gpc = "Aabb_hit" => (rec.hit <=> Crosses(shape.bbox, ray, t_min, t_max))

\* what the code does: each axis is tested on its own against the caller's
\* range (the loop's t_min and t_max are new bindings in every turn), and an
\* axis passes when its slab interval and the range overlap in more than a
\* point
C25_AabbHitIsPerAxis ==
    gpc = "Aabb_hit" =>
        (rec.hit <=>
            \A k \in 1..3 :
                LET i == SlabInterval(shape.bbox, ray, k)
                IN  GreatestOf({i[1], t_min}) < LeastOf({i[2], t_max}))

\* the hit the wrapped object reports for the ray it is asked with
InnerHit == Hit(shape.hitable, InnerRay(shape, ray), t_min, t_max)

\* C26: Translate::hit returns the inner object's hit for the ray shifted by
\* -offset, with the hit point shifted by +offset and with t, normal,
\* front_face and material as the inner hit reported them.
C26_TranslateKeepsInnerHit ==
    gpc = "Translate_hit" =>
        /\ (rec = None) <=> (InnerHit = None)
        /\ rec # None =>
               /\ rec.t = InnerHit.t
               /\ rec.hit_point = VAdd(InnerHit.hit_point, VMul(TScale, shape.offset))
               /\ rec.normal = InnerHit.normal
               /\ rec.front_face = InnerHit.front_face
               /\ rec.material = InnerHit.material

\* what the code does: the flag and the normal are set again from the
\* normal the inner hit has already turned against the ray, so the flag is
\* true unless that normal is perpendicular to the ray
C26_TranslateResetsFrontFace ==
    gpc = "Translate_hit" =>
        /\ (rec = None) <=> (InnerHit = None)
        /\ rec # None =>
               /\ rec.t = InnerHit.t
               /\ rec.hit_point = VAdd(InnerHit.hit_point, VMul(TScale, shape.offset))
               /\ rec.material = InnerHit.material
               /\ rec.front_face = (Dot(ray.direction, InnerHit.normal) < 0)
               /\ rec.normal = IF rec.front_face THEN InnerHit.normal
                               ELSE VNeg(InnerHit.normal)

\* C27: for every hit returned by RotateY::hit, t is the inner hit's t, the
\* hit point is the original ray's point(t), and the normal is the inner
\* hit's normal rotated back to world space, so it is oriented against the
\* original ray's direction.
C27_RotateYNormalAgainstRay ==
    (gpc = "RotateY_hit" /\ rec # None) =>
        /\ InnerHit # None
        /\ rec.t = InnerHit.t
        /\ rec.hit_point = RayPoint(ray, rec.t)
        /\ rec.normal = RotateOut(shape, InnerHit.normal)
        /\ Dot(ray.direction, rec.normal) <= 0

\* what the code does: t and the hit point are as said, but the rotated
\* normal is then turned against the ray in the object's space
C27_RotateYNormalAgainstRotatedRay ==
    (gpc = "RotateY_hit" /\ rec # None) =>
        /\ InnerHit # None
        /\ rec.t = InnerHit.t
        /\ rec.hit_point = RayPoint(ray, rec.t)
        /\ rec.normal \in {RotateOut(shape, InnerHit.normal),
                           VNeg(RotateOut(shape, InnerHit.normal))}
        /\ Dot(InnerRay(shape, ray).direction, rec.normal) <= 0

\* the boundary's entry and exit distances along the ray
Entry == Hit(shape.boundary, ray, -Inf, Inf)
Exit == Hit(shape.boundary, ray, AfterEntry(Entry.t), Inf)
\* the length of the part of the ray inside the boundary and the range
SegmentLength ==
    ((FMin(Exit.t, t_max) - FMax(FMax(Entry.t, t_min), 0)) * Length(ray.direction))
        \div UnitScale
\* the free-flight distance -ln(rand()) / density, times TScale
FreeFlight ==
    IF IsFinite(rec.ln) THEN ((-rec.ln) * TScale * DensityUnit) \div rec.density
    ELSE IF rec.density > 0 THEN Inf ELSE -Inf
Crossed == Entry # None /\ Exit # None

\* C28: ConstantMedium::hit reports no hit when the sampled free-flight
\* distance exceeds the length of the ray inside the boundary, and every hit
\* it reports has t within [t_min, t_max] and between the boundary's entry
\* and exit distances, for every density accepted by ConstantMedium::new
\* and every random draw.
C28_MediumHitInsideSegment ==
    gpc = "ConstantMedium_hit" =>
        /\ (Crossed /\ FreeFlight > SegmentLength) => rec.result = None
        /\ rec.result # None =>
               /\ Crossed
               /\ t_min <= rec.result.t /\ rec.result.t <= t_max
               /\ Entry.t <= rec.result.t /\ rec.result.t <= Exit.t

\* what the code does: the bounds hold for the positive densities; with a
\* negative density the distance drawn is negative or zero, a hit is
\* reported whenever the ray crosses the boundary inside the range, and its
\* t is not after the start of the segment
C28_PositiveDensityHitInsideSegment ==
    gpc = "ConstantMedium_hit" =>
        /\ (Crossed /\ FreeFlight > SegmentLength) => rec.result = None
        /\ (rec.result # None /\ rec.density > 0) =>
               /\ Crossed
               /\ t_min <= rec.result.t /\ rec.result.t <= t_max
               /\ Entry.t <= rec.result.t /\ rec.result.t <= Exit.t
        /\ (rec.result # None /\ rec.density < 0) =>
               /\ Crossed
               /\ rec.result.t <= FMax(FMax(Entry.t, t_min), 0)

\* the unit vector along the constant axis of the rectangle asked
ConstantAxis ==
    IF shape.kind = "xy" THEN Vec3(0, 0, 1)
    ELSE IF shape.kind = "xz" THEN Vec3(0, 1, 0)
    ELSE Vec3(1, 0, 0)

\* C29: every hit returned by XyRect, XzRect or YzRect carries a unit normal
\* parallel to the rectangle's constant axis (z, y, x), oriented against the
\* incoming ray.
C29_RectNormalAlongConstantAxis ==
    (gpc = "Rect_hit" /\ rec # None) =>
        /\ rec.normal \in {ConstantAxis, VNeg(ConstantAxis)}
        /\ Dot(ray.direction, rec.normal) <= 0

\* what the code does: the normal is a unit vector turned against the ray,
\* along z for XyRect and along y for both XzRect and YzRect
C29_RectNormalIsLiteral ==
    (gpc = "Rect_hit" /\ rec # None) =>
        /\ rec.normal \in (IF shape.kind = "xy" THEN {Vec3(0, 0, 1), Vec3(0, 0, -1)}
                           ELSE {Vec3(0, 1, 0), Vec3(0, -1, 0)})
        /\ Dot(ray.direction, rec.normal) <= 0

\* row y holds what its worker sampled, written once; row y was never written
Committed(y) ==
    \A x \in 0..(width - 1) :
        /\ writers[<<x, y>>] = <<BandOf(y, height)>>
        /\ image[<<x, y>>] = Rgb(computed[<<x, y>>][1])
Black(y) ==
    \A x \in 0..(width - 1) : writers[<<x, y>>] = <<>> /\ image[<<x, y>>] = 0

\* C30: if a worker panics while sampling a row, raytrace still returns: the
\* mutex is never poisoned (no panic happens while it is held), every worker
\* that did not panic has committed all its rows, and the rows a panicked
\* worker had not committed are as black as they started.
C30_WorkerPanicIsContained ==
    /\ <>(main.pc = "returned")
    /\ [](mutex # Poisoned)
    /\ [][\A i \in Threads :
              (workers'[i].pc = "panicked" /\ workers[i].pc # "panicked") =>
                  /\ workers[i].pc = "sample" /\ mutex # i
                  /\ UNCHANGED <<image, writers, mutex>>]_vars
    /\ [](main.pc = "returned" =>
              \A i \in Threads :
                  /\ workers[i].pc \in {"done", "panicked"}
                  /\ workers[i].pc = "done" => \A y \in Band(i, height) : Committed(y)
                  /\ workers[i].pc = "panicked" =>
                         \E y0 \in Band(i, height) :
                             \A y \in Band(i, height) :
                                 IF y < y0 THEN Committed(y) ELSE Black(y))

\* raytrace has returned although the last worker panicked in its second
\* row: its first row and the row of the worker before it are committed,
\* its second row is black
C30_Witness ==
    /\ main.pc = "returned"
    /\ workers[NB_THREADS - 1].pc = "panicked"
    /\ workers[NB_THREADS - 2].pc = "done"
    /\ Committed(TallHeight - 3) /\ Committed(TallHeight - 2)
    /\ Black(TallHeight - 1)
    /\ image[<<0, TallHeight - 2>>] # 0

=============================================================================
